---------------------------- MODULE Spec2Model ----------------------------
(***************************************************************************)
(* Model of the retrieval-augmented conversational orchestrator of         *)
(* Sanal-Sekreter: the per-call conversation state and handoff policy      *)
(* (OrchestratorService), the retrieval path (RAGService) and the vector   *)
(* store (VectorStoreService).                                             *)
(*                                                                         *)
(* Text is a sequence of one-character strings.  Letters outside ASCII     *)
(* are written as two-character atoms: "e+" is e-acute, "e-" e-grave,      *)
(* "u-" u-grave, "c+" c-cedilla, "s+" s-cedilla, "i-" dotless i.           *)
(* Confidences, similarities and thresholds are in hundredths.             *)
(***************************************************************************)
EXTENDS Integers, Sequences, FiniteSets, TLC

VARIABLES
  apiKeyConfigured,     \* config.openai.apiKey present: both OpenAI clients are non-null
  clockOpen,            \* what isBusinessHours() returns when called now
  conversationHistory,  \* Map callId -> messages[]; 0 = no entry, else the array's reference
  arrays,               \* the message arrays, by reference
  calls,                \* the processCall invocations, by invocation number
  nextInv,              \* the number of the next processCall invocation
  lastReturn,           \* what the last getConversationSummary or status webhook returned
  documents,            \* table documents
  chunks,               \* table document_chunks: the committed rows
  inserts,              \* the insertChunks calls, by operation number
  nextOp,               \* the number of the next store operation
  lastSearch,           \* the last search or query: its request and what it returned
  indexOps,             \* the indexDocument, reindexDocument and deleteDocument calls
  folder,               \* the indexFolder call
  textCall              \* the last call of a text function: its arguments and its progress

vars == <<apiKeyConfigured, clockOpen, conversationHistory, arrays, calls, nextInv,
          lastReturn, documents, chunks, inserts, nextOp, lastSearch, indexOps, folder,
          textCall>>

convVars == <<apiKeyConfigured, clockOpen, conversationHistory, arrays, calls, nextInv,
              lastReturn>>

storeVars == <<documents, chunks, inserts, nextOp, lastSearch>>

indexVars == <<indexOps, folder, textCall>>

-----------------------------------------------------------------------------
(* Bounds *)

\* processCall invocations of a run of Spec and of a run of SpecCalls
MaxTurns == 1

MaxCallTurns == 2

\* indexDocument, reindexDocument and deleteDocument calls of a run
MaxIndexOps == 2

\* files a folder lists
MaxFiles == 2

\* characters of a text that is chunked
MaxTextLen == 4

\* iterations of the loop of chunkText that are followed
MaxLoopSteps == 4

\* texts of a generateEmbeddings call
MaxTexts == 3

CallIds == {"CA", "CB"}

-----------------------------------------------------------------------------
(* Text *)

Min(a, b) == IF a <= b THEN a ELSE b

Range(s) == {s[i] : i \in 1..Len(s)}

\* String.prototype.toLowerCase on one character
LowerChar(c) ==
  CASE c = "A" -> "a" [] c = "B" -> "b" [] c = "C" -> "c" [] c = "D" -> "d"
    [] c = "E" -> "e" [] c = "F" -> "f" [] c = "G" -> "g" [] c = "H" -> "h"
    [] c = "I" -> "i" [] c = "J" -> "j" [] c = "K" -> "k" [] c = "L" -> "l"
    [] c = "M" -> "m" [] c = "N" -> "n" [] c = "O" -> "o" [] c = "P" -> "p"
    [] c = "Q" -> "q" [] c = "R" -> "r" [] c = "S" -> "s" [] c = "T" -> "t"
    [] c = "U" -> "u" [] c = "V" -> "v" [] c = "W" -> "w" [] c = "X" -> "x"
    [] c = "Y" -> "y" [] c = "Z" -> "z" [] OTHER -> c

ToLowerCase(text) == [i \in 1..Len(text) |-> LowerChar(text[i])]

\* String.prototype.includes
Includes(text, keyword) ==
  \E i \in 1..(Len(text) - Len(keyword) + 1) :
     \A j \in 1..Len(keyword) : text[i + j - 1] = keyword[j]

\* whitespace, as String.prototype.trim sees it
IsSpace(c) == c \in {" ", "\t", "\n"}

\* !text || text.trim().length === 0
IsBlank(text) == \A i \in 1..Len(text) : IsSpace(text[i])

-----------------------------------------------------------------------------
(* Intent classifier *)

\* the intents table of detectIntent, in declaration order
IntentKeywords ==
  <<
     [name |-> "business_hours", keywords |-> <<
        <<"h", "e", "u", "r", "e", "s">>,
        <<"o", "u", "v", "e", "r", "t">>,
        <<"h", "o", "r", "a", "i", "r", "e", "s">>,
        <<"a", "c+", "i-", "k">>,
        <<"s", "a", "a", "t">>,
        <<"h", "o", "u", "r", "s">>,
        <<"o", "p", "e", "n">>>>],
     [name |-> "services", keywords |-> <<
        <<"s", "e", "r", "v", "i", "c", "e">>,
        <<"r", "e+", "p", "a", "r", "a", "t", "i", "o", "n">>,
        <<"r", "e", "p", "a", "i", "r">>,
        <<"t", "a", "m", "i", "r">>,
        <<"h", "i", "z", "m", "e", "t">>>>],
     [name |-> "appointment", keywords |-> <<
        <<"r", "e", "n", "d", "e", "z", "-", "v", "o", "u", "s">>,
        <<"a", "p", "p", "o", "i", "n", "t", "m", "e", "n", "t">>,
        <<"r", "a", "n", "d", "e", "v", "u">>,
        <<"r", "e+", "s", "e", "r", "v", "e", "r">>,
        <<"b", "o", "o", "k">>>>],
     [name |-> "technical_support", keywords |-> <<
        <<"p", "r", "o", "b", "l", "e-", "m", "e">>,
        <<"p", "r", "o", "b", "l", "e", "m">>,
        <<"s", "o", "r", "u", "n">>,
        <<"b", "u", "g">>,
        <<"e", "r", "r", "o", "r">>,
        <<"p", "a", "n", "n", "e">>>>],
     [name |-> "pricing", keywords |-> <<
        <<"p", "r", "i", "x">>,
        <<"t", "a", "r", "i", "f">>,
        <<"c", "o", "s", "t">>,
        <<"p", "r", "i", "c", "e">>,
        <<"f", "i", "y", "a", "t">>>>],
     [name |-> "location", keywords |-> <<
        <<"a", "d", "r", "e", "s", "s", "e">>,
        <<"o", "u-">>,
        <<"l", "o", "c", "a", "t", "i", "o", "n">>,
        <<"a", "d", "d", "r", "e", "s", "s">>,
        <<"a", "d", "r", "e", "s">>,
        <<"n", "e", "r", "e", "d", "e">>>>],
     [name |-> "contact", keywords |-> <<
        <<"c", "o", "n", "t", "a", "c", "t">>,
        <<"e", "m", "a", "i", "l">>,
        <<"t", "e+", "l", "e+", "p", "h", "o", "n", "e">>,
        <<"p", "h", "o", "n", "e">>,
        <<"i", "l", "e", "t", "i", "s+", "i", "m">>>>],
     [name |-> "agent_request", keywords |-> <<
        <<"a", "g", "e", "n", "t">>,
        <<"p", "e", "r", "s", "o", "n", "n", "e">>,
        <<"h", "u", "m", "a", "n">>,
        <<"t", "e", "m", "s", "i", "l", "c", "i">>,
        <<"i", "n", "s", "a", "n">>>>]
  >>

\* the utterances the model's callers say
UtteranceText ==
  [u \in {"u_hello", "u_agent", "u_bug", "u_book", "u_errbug", "u_blank", "u_agentbook", "u_hours", "u_prix", "u_bookappt", "u_outage"} |->
     CASE u = "u_hello" -> <<"H", "e", "l", "l", "o">>
       [] u = "u_agent" -> <<"A", "G", "E", "N", "T">>
       [] u = "u_bug" -> <<"b", "u", "g">>
       [] u = "u_book" -> <<"b", "o", "o", "k">>
       [] u = "u_errbug" -> <<"e", "r", "r", "o", "r", " ", "b", "u", "g">>
       [] u = "u_blank" -> <<" ", " ">>
       [] u = "u_agentbook" -> <<"a", "g", "e", "n", "t", " ", "b", "o", "o", "k">>
       [] u = "u_hours" -> <<"w", "h", "a", "t", " ", "a", "r", "e", " ", "y", "o", "u", "r", " ", "o", "p", "e", "n", "i", "n", "g", " ", "h", "o", "u", "r", "s">>
       [] u = "u_prix" -> <<"p", "r", "i", "x">>
       [] u = "u_bookappt" -> <<"b", "o", "o", "k", " ", "a", "p", "p", "o", "i", "n", "t", "m", "e", "n", "t">>
       [] u = "u_outage" -> <<"B", "u", "g", " ", "e", "r", "r", "o", "r", " ", "p", "r", "o", "b", "l", "e", "m", " ", "p", "a", "n", "n", "e">>
  ]

Utterances == DOMAIN UtteranceText

\* keywords.filter(keyword => lowerText.includes(keyword)).length
RECURSIVE CountMatches(_, _)
CountMatches(lowerText, keywords) ==
  IF keywords = <<>> THEN 0
  ELSE (IF Includes(lowerText, Head(keywords)) THEN 1 ELSE 0)
       + CountMatches(lowerText, Tail(keywords))

\* the loop of detectIntent over Object.entries(intents), from entry k on
RECURSIVE ScanIntents(_, _, _, _)
ScanIntents(lowerText, k, detectedIntent, maxMatches) ==
  IF k > Len(IntentKeywords) THEN [name |-> detectedIntent, matches |-> maxMatches]
  ELSE LET matches == CountMatches(lowerText, IntentKeywords[k].keywords)
       IN  IF matches > maxMatches
           THEN ScanIntents(lowerText, k + 1, IntentKeywords[k].name, matches)
           ELSE ScanIntents(lowerText, k + 1, detectedIntent, maxMatches)

\* a confidence without the cap
ConfidenceUncapped(maxMatches) == maxMatches * 30

\* Math.min(maxMatches * 0.3, 0.95), in hundredths
Confidence(maxMatches) == Min(maxMatches * 30, 95)

DetectIntent(text) ==
  LET best == ScanIntents(ToLowerCase(text), 1, "general_inquiry", 0)
  IN  [name |-> best.name, confidence |-> Confidence(best.matches)]

-----------------------------------------------------------------------------
(* Vector store *)

MaxStoreOps == 2

MaxBatch == 2

\* the longest list of candidate embeddings given to findMostSimilar
MaxCandidates == 3

\* config.rag.topK and config.rag.similarityThreshold (in hundredths)
ConfigTopK == 5

ConfigSimilarityThreshold == 70

\* batchSize of generateEmbeddings
EmbedBatchSize == 2048

\* JavaScript values of the optional numeric options: undefined, or a number
JsUndefined == [def |-> FALSE, v |-> 0]

JsNum(n) == [def |-> TRUE, v |-> n]

\* JavaScript truthiness of a numeric option and of a string option; the
\* strings "undefined" and "null" stand for the values undefined and null
TruthyNum(x) == x.def /\ x.v # 0

TruthyStr(x) == x \notin {"undefined", "null", ""}

\* a || b
OrElseNum(a, b) == IF TruthyNum(a) THEN a ELSE b

OrElseStr(a, b) == IF TruthyStr(a) THEN a ELSE b

\* a destructuring default: it applies to undefined only
DefaultNum(a, b) == IF a.def THEN a ELSE b

DefaultStr(a, b) == IF a = "undefined" THEN b ELSE a

\* embedding vectors; the provider returns non-zero vectors
Vectors == {<<1, 0>>, <<0, 1>>, <<1, 1>>, <<-1, 0>>}

Dot(a, b) == a[1] * b[1] + a[2] * b[2]

ISqrt(n) == CHOOSE r \in 0..100 : r * r <= n /\ n < (r + 1) * (r + 1)

\* 1 - (dc.embedding <=> $1::vector): the cosine similarity, in hundredths
\* (rounded towards zero)
Similarity(a, b) ==
  LET d  == Dot(a, b)
      nn == Dot(a, a) * Dot(b, b)
      m  == ISqrt((10000 * d * d) \div nn)
  IN  IF d < 0 THEN 0 - m ELSE m

\* the rows of table documents: the knowledge base content is given
DocTable ==
  [d \in {"d1", "d2", "d3"} |->
     CASE d = "d1" -> [access_level |-> "public", category |-> "General", department |-> "null"]
       [] d = "d2" -> [access_level |-> "internal", category |-> "General", department |-> "IT"]
       [] d = "d3" -> [access_level |-> "confidential", category |-> "HR", department |-> "IT"]]

\* the document ids callers name; "d9" has no row in documents
DocIds == {"d1", "d2", "d3", "d9"}

\* the provider's embedding of a text
EmbeddingOf(text) ==
  CASE text = "t1" -> <<1, 0>>
    [] text = "t2" -> <<1, 1>>
    [] OTHER -> <<0, 1>>

\* the rows a search sees: FROM document_chunks dc JOIN documents d
\* WHERE similarity >= threshold AND the equality filters that are set
MatchingRows(rows, docs, q, threshold, accessLevel, category, department) ==
  {r \in rows :
     /\ r.document_id \in DOMAIN docs
     /\ Similarity(r.embedding, q) >= threshold
     /\ (TruthyStr(accessLevel) => docs[r.document_id].access_level = accessLevel)
     /\ (TruthyStr(category) => docs[r.document_id].category = category)
     /\ (TruthyStr(department) => docs[r.document_id].department = department)}

\* ORDER BY similarity DESC LIMIT k: every order the database may return
\* (rows of equal similarity come in any order)
RECURSIVE OrderByLimit(_, _, _)
OrderByLimit(rows, q, k) ==
  IF k <= 0 \/ rows = {} THEN {<<>>}
  ELSE LET top == {r \in rows : \A o \in rows : Similarity(r.embedding, q) >= Similarity(o.embedding, q)}
       IN  UNION {{<<r>> \o rest : rest \in OrderByLimit(rows \ {r}, q, k - 1)} : r \in top}

\* result.rows.map(row => ...) of searchSimilar
ResultRow(r, docs, q) ==
  [id |-> r.id, documentId |-> r.document_id, chunkIndex |-> r.chunk_index,
   category |-> docs[r.document_id].category,
   department |-> docs[r.document_id].department,
   similarity |-> Similarity(r.embedding, q)]

\* the access-level condition of searchSimilar's query
AccessFilter(options) == DefaultStr(options.accessLevel, "public")

\* the LIMIT of searchSimilar's query
SearchLimit(options) == DefaultNum(options.topK, JsNum(ConfigTopK)).v

\* VectorStoreService.searchSimilar: the results it may return
SearchSimilar(rows, docs, q, options) ==
  LET threshold == DefaultNum(options.threshold, JsNum(ConfigSimilarityThreshold)).v
      category == DefaultStr(options.category, "null")
      department == DefaultStr(options.department, "null")
      found == MatchingRows(rows, docs, q, threshold, AccessFilter(options), category, department)
  IN  {[i \in 1..Len(s) |-> ResultRow(s[i], docs, q)] : s \in OrderByLimit(found, q, SearchLimit(options))}

\* query forwarding the caller's access level as it is
QuerySearchOptionsForwarding(options) ==
  [topK |-> OrElseNum(options.topK, JsNum(ConfigTopK)),
   threshold |-> OrElseNum(options.threshold, JsNum(ConfigSimilarityThreshold)),
   accessLevel |-> options.accessLevel,
   category |-> options.category,
   department |-> options.department]

\* the searchOptions RAGService.query builds from the caller's options
QuerySearchOptions(options) ==
  [topK |-> OrElseNum(options.topK, JsNum(ConfigTopK)),
   threshold |-> OrElseNum(options.threshold, JsNum(ConfigSimilarityThreshold)),
   accessLevel |-> OrElseStr(options.accessLevel, "public"),
   category |-> options.category,
   department |-> options.department]

-----------------------------------------------------------------------------
(* Vector store operations *)

StoreOps == 1..MaxStoreOps

\* the texts of the chunks of a batch, in batch order
BatchTexts == <<"t1", "t2", "t3", "t1">>

\* a batch of n chunks of document d, as indexDocument prepares it
MakeBatch(d, n) ==
  [k \in 1..n |-> [documentId |-> d, chunkIndex |-> k - 1, content |-> BatchTexts[k],
                   embedding |-> EmbeddingOf(BatchTexts[k])]]

Batches == {MakeBatch(d, n) : d \in DocIds \ {"d3"}, n \in 0..MaxBatch}

\* failedAt: the number of items inserted when the call failed, which the
\* program does not store
IdleInsert ==
  [pc |-> "idle", batch |-> <<>>, pending |-> <<>>, ids |-> <<>>, thrown |-> FALSE,
   failedAt |-> 0]

\* the row an INSERT of insertChunks adds for item k of the batch of call op
InsertedRow(op, k, item) ==
  [id |-> op * 100 + k, document_id |-> item.documentId, chunk_index |-> item.chunkIndex,
   content |-> item.content, embedding |-> item.embedding, op |-> op]

\* document_id REFERENCES documents(id): the INSERT of a chunk of a
\* document that has no row fails
ForeignKeyHolds(docs, item) == item.documentId \in DOMAIN docs

\* COMMIT: the rows of the transaction join the table
Commit(committed, pending) == committed \cup Range(pending)

\* no transaction: the rows inserted before the failure stay
RollbackKeepsRows(committed, pending) == committed \cup Range(pending)

\* ROLLBACK: the rows of the transaction are dropped
Rollback(committed, pending) == committed

\* insertChunks: pool.connect() and BEGIN
InsertChunksBegin(batch) ==
  /\ nextOp <= MaxStoreOps
  /\ inserts' = [inserts EXCEPT ![nextOp] = [IdleInsert EXCEPT !.pc = "open", !.batch = batch]]
  /\ nextOp' = nextOp + 1
  /\ UNCHANGED <<indexVars, convVars, documents, chunks, lastSearch>>

\* insertChunks: the INSERT of the next item succeeds
InsertChunksItem(op) ==
  /\ inserts[op].pc = "open"
  /\ Len(inserts[op].pending) < Len(inserts[op].batch)
  /\ LET k == Len(inserts[op].pending) + 1
         item == inserts[op].batch[k]
         row == InsertedRow(op, k, item)
     IN  /\ ForeignKeyHolds(documents, item)
         /\ inserts' = [inserts EXCEPT ![op].pending = Append(@, row),
                                       ![op].ids = Append(@, row.id)]
  /\ UNCHANGED <<indexVars, convVars, documents, chunks, nextOp, lastSearch>>

\* insertChunks: the INSERT of the next item, or the COMMIT, fails: the
\* catch block rolls back and rethrows
InsertChunksFail(op) ==
  /\ inserts[op].pc = "open"
  /\ chunks' = Rollback(chunks, inserts[op].pending)
  /\ inserts' = [inserts EXCEPT ![op].pc = "rolledback", ![op].pending = <<>>,
                                ![op].ids = <<>>, ![op].thrown = TRUE,
                                ![op].failedAt = Len(inserts[op].pending)]
  /\ UNCHANGED <<indexVars, convVars, documents, nextOp, lastSearch>>

\* insertChunks: COMMIT after the last item, and the ids are returned
InsertChunksCommit(op) ==
  /\ inserts[op].pc = "open"
  /\ Len(inserts[op].pending) = Len(inserts[op].batch)
  /\ chunks' = Commit(chunks, inserts[op].pending)
  /\ inserts' = [inserts EXCEPT ![op].pc = "committed", ![op].pending = <<>>]
  /\ UNCHANGED <<indexVars, convVars, documents, nextOp, lastSearch>>

-----------------------------------------------------------------------------
(* Searches *)

\* the option values callers pass
TopKOptions == {JsUndefined, JsNum(0), JsNum(1), JsNum(2)}

ThresholdOptions == {JsUndefined, JsNum(0), JsNum(50)}

AccessLevelOptions == {"undefined", "null", "public", "internal", "confidential"}

CategoryOptions == {"undefined", "General"}

DepartmentOptions == {"undefined", "IT"}

SearchOptions ==
  [topK : TopKOptions, threshold : ThresholdOptions, accessLevel : AccessLevelOptions,
   category : CategoryOptions, department : DepartmentOptions]

NoSearch ==
  [via |-> "none", options |-> [topK |-> JsUndefined, threshold |-> JsUndefined,
                                accessLevel |-> "undefined", category |-> "undefined",
                                department |-> "undefined"],
   thrown |-> FALSE, results |-> <<>>]

\* a call of vectorStoreService.searchSimilar
SearchSimilarCall(q, options) ==
  /\ \E r \in SearchSimilar(chunks, documents, q, options) :
        lastSearch' = [via |-> "searchSimilar", options |-> options, thrown |-> FALSE,
                       results |-> r]
  /\ UNCHANGED <<indexVars, convVars, documents, chunks, inserts, nextOp>>

\* generateEmbedding throws without a client and on blank text
EmbeddingRefused(question) == ~apiKeyConfigured \/ IsBlank(UtteranceText[question])

\* a call of ragService.query that returns
QueryCall(question, q, options) ==
  /\ ~EmbeddingRefused(question)
  /\ \E r \in SearchSimilar(chunks, documents, q, QuerySearchOptions(options)) :
        lastSearch' = [via |-> "query", options |-> options, thrown |-> FALSE, results |-> r]
  /\ UNCHANGED <<indexVars, convVars, documents, chunks, inserts, nextOp>>

\* a call of ragService.query that throws: the embedding or the search failed
QueryThrows(question, options) ==
  /\ lastSearch' = [via |-> "query", options |-> options, thrown |-> TRUE, results |-> <<>>]
  /\ UNCHANGED <<indexVars, convVars, documents, chunks, inserts, nextOp>>

\* the chunk rows a store may hold when it is searched
RowUniverse ==
  {[id |-> 1, document_id |-> "d1", chunk_index |-> 0, content |-> "t1",
    embedding |-> EmbeddingOf("t1"), op |-> 0],
   [id |-> 2, document_id |-> "d1", chunk_index |-> 1, content |-> "t2",
    embedding |-> EmbeddingOf("t2"), op |-> 0],
   [id |-> 3, document_id |-> "d2", chunk_index |-> 0, content |-> "t1",
    embedding |-> EmbeddingOf("t1"), op |-> 0],
   [id |-> 4, document_id |-> "d2", chunk_index |-> 1, content |-> "t3",
    embedding |-> EmbeddingOf("t3"), op |-> 0],
   [id |-> 5, document_id |-> "d3", chunk_index |-> 0, content |-> "t2",
    embedding |-> EmbeddingOf("t2"), op |-> 0]}

-----------------------------------------------------------------------------
(* Conversation state and handoff policy *)

Invs == 1..(MaxTurns + MaxCallTurns)

\* the utterances of the modelled calls
TurnInputs == {"u_hello", "u_agent", "u_bug", "u_bookappt"}

\* the context objects callers pass
NoContext == [accessLevel |-> "undefined", fromNumber |-> FALSE]

Contexts == {NoContext, [accessLevel |-> "internal", fromNumber |-> TRUE]}

SystemPrompt == "system_prompt"

\* a message of a log; inv is the processCall invocation that pushed it
\* (0: none), which the program does not store
Message(role, content, inv) == [role |-> role, content |-> content, inv |-> inv]

\* a new conversation that starts empty
InitialMessagesEmpty == <<>>

\* the array a new conversation starts with
InitialMessages == <<Message("system", SystemPrompt, 0)>>

\* one key for every call
HistoryKeyShared(callId) == "CA"

\* the key of a call's entry in the conversationHistory map
HistoryKey(callId) == callId

\* lookups is not stored by the program: the outcomes of the three lookups
\* of gatherContext, kept until the turn goes on to the language model
IdleCall ==
  [pc |-> "idle", callId |-> "", userInput |-> "", context |-> NoContext,
   messages |-> 0, intent |-> [name |-> "", confidence |-> 0],
   toolResults |-> <<>>, isOpen |-> FALSE, request |-> <<>>, result |-> <<>>,
   lookups |-> <<>>]

ToolResult(tool, n) == [tool |-> tool, n |-> n]

\* the options gatherContext passes to ragService.query
GatherQueryOptions(context) ==
  [topK |-> JsNum(3), threshold |-> JsUndefined,
   accessLevel |-> OrElseStr(context.accessLevel, "public"),
   category |-> "undefined", department |-> "undefined"]

\* the knowledge-base stage of gatherContext: "skip" (not asked), "throw",
\* or the results of ragService.query
KnowledgeOutcomes(intent, userInput, context) ==
  IF intent.name = "agent_request" THEN {[kind |-> "skip", n |-> 0]}
  ELSE {[kind |-> "throw", n |-> 0]}
       \cup (IF ~EmbeddingRefused(userInput)
             THEN {[kind |-> "results", n |-> Len(r)] :
                     r \in UNION {SearchSimilar(chunks, documents, q,
                                    QuerySearchOptions(GatherQueryOptions(context)))
                                  : q \in Vectors}}
             ELSE {})

\* the calendar stage: "skip", "throw" or the slots found
CalendarOutcomes(intent) ==
  IF intent.name = "appointment"
  THEN {[kind |-> "throw", n |-> 0], [kind |-> "results", n |-> 1]}
  ELSE {[kind |-> "skip", n |-> 0]}

\* the contacts stage: "skip", "throw", a contact (n = 1) or null (n = 0)
ContactOutcomes(intent, context) ==
  IF context.fromNumber /\ intent.confidence > 50
  THEN {[kind |-> "throw", n |-> 0], [kind |-> "results", n |-> 0], [kind |-> "results", n |-> 1]}
  ELSE {[kind |-> "skip", n |-> 0]}

\* how a lookup ended: "skip", "throw", "empty" (it answered with nothing)
\* or "found"
Outcome(lookup) ==
  IF lookup.kind = "results" THEN (IF lookup.n > 0 THEN "found" ELSE "empty")
  ELSE lookup.kind

\* gatherContext with a try/catch around each lookup: a lookup that raises
\* is skipped and the later ones still run
GatherResultsContinues(kb, cal, con) ==
  LET r1 == IF kb.kind = "results" /\ kb.n > 0
            THEN <<ToolResult("knowledge_base", kb.n)>> ELSE <<>>
      r2 == IF cal.kind = "results"
            THEN Append(r1, ToolResult("check_calendar", cal.n)) ELSE r1
  IN  IF con.kind = "results" /\ con.n > 0
      THEN Append(r2, ToolResult("search_contacts", con.n)) ELSE r2

\* OrchestratorService.gatherContext: the results array it returns, given the
\* outcome of each lookup; a throw is caught and ends the gathering
GatherResults(kb, cal, con) ==
  LET r1 == IF kb.kind = "results" /\ kb.n > 0
            THEN <<ToolResult("knowledge_base", kb.n)>> ELSE <<>>
      r2 == IF cal.kind = "results"
            THEN Append(r1, ToolResult("check_calendar", cal.n)) ELSE r1
      r3 == IF con.kind = "results" /\ con.n > 0
            THEN Append(r2, ToolResult("search_contacts", con.n)) ELSE r2
  IN  IF kb.kind = "throw" THEN <<>>
      ELSE IF cal.kind = "throw" THEN r1
      ELSE IF con.kind = "throw" THEN r2
      ELSE r3

\* toolResults.some(t => t.tool === 'knowledge_base')
HasKnowledge(toolResults) ==
  \E k \in 1..Len(toolResults) : toolResults[k].tool = "knowledge_base"

\* shouldHandoff with the low-confidence test written <= 0.3
ShouldHandoffInclusive(intent, toolResults, open) ==
  IF intent.name = "agent_request" THEN TRUE
  ELSE IF intent.confidence <= 30 THEN TRUE
  ELSE IF intent.name = "technical_support" /\ open THEN TRUE
  ELSE IF ~HasKnowledge(toolResults) /\ intent.name # "general_inquiry" THEN TRUE
  ELSE FALSE

\* shouldHandoff without the low-confidence rule
ShouldHandoffNoLowConfidence(intent, toolResults, open) ==
  IF intent.name = "agent_request" THEN TRUE
  ELSE IF intent.name = "technical_support" /\ open THEN TRUE
  ELSE IF ~HasKnowledge(toolResults) /\ intent.name # "general_inquiry" THEN TRUE
  ELSE FALSE

\* OrchestratorService.shouldHandoff; open is what isBusinessHours() returns
ShouldHandoff(intent, toolResults, open) ==
  IF intent.name = "agent_request" THEN TRUE
  ELSE IF intent.confidence < 30 THEN TRUE
  ELSE IF intent.name = "technical_support" /\ open THEN TRUE
  ELSE IF ~HasKnowledge(toolResults) /\ intent.name # "general_inquiry" THEN TRUE
  ELSE FALSE

\* OrchestratorService.getHandoffReason: reasons[intent.name] || default
GetHandoffReason(intent) ==
  CASE intent.name = "agent_request" -> "Customer requested human agent"
    [] intent.name = "technical_support" -> "Technical support requires specialist"
    [] intent.name = "low_confidence" -> "Unable to understand request clearly"
    [] intent.name = "no_knowledge" -> "Information not available in knowledge base"
    [] OTHER -> "Customer needs personalized assistance"

\* messages.filter(m => m.role !== 'system').length
NonSystemCount(messages) ==
  Cardinality({k \in 1..Len(messages) : messages[k].role # "system"})

\* processCall up to its first suspension: get or create the history, push
\* the user message, classify the utterance
ProcessCallStart(callId, userInput, context) ==
  /\ LET i == nextInv
         key == HistoryKey(callId)
         fresh == conversationHistory[key] = 0
         ref == IF fresh THEN i ELSE conversationHistory[key]
         old == IF fresh THEN InitialMessages ELSE arrays[ref]
     IN  /\ conversationHistory' = [conversationHistory EXCEPT ![key] = ref]
         /\ arrays' = [arrays EXCEPT ![ref] = Append(old, Message("user", userInput, i))]
         /\ calls' = [calls EXCEPT ![i] =
                        [IdleCall EXCEPT !.pc = "gather", !.callId = callId,
                                         !.userInput = userInput, !.context = context,
                                         !.messages = ref,
                                         !.intent = DetectIntent(UtteranceText[userInput])]]
         /\ nextInv' = i + 1
  /\ UNCHANGED <<indexVars, apiKeyConfigured, clockOpen, lastReturn, storeVars>>

\* processCall: await this.gatherContext(intent, userInput, context)
ProcessCallGather(i) ==
  /\ calls[i].pc = "gather"
  /\ \E kb \in KnowledgeOutcomes(calls[i].intent, calls[i].userInput, calls[i].context),
        cal \in CalendarOutcomes(calls[i].intent),
        con \in ContactOutcomes(calls[i].intent, calls[i].context) :
        calls' = [calls EXCEPT ![i].pc = "send",
                               ![i].toolResults = GatherResults(kb, cal, con),
                               ![i].lookups = <<Outcome(kb), Outcome(cal), Outcome(con)>>]
  /\ UNCHANGED <<indexVars, apiKeyConfigured, clockOpen, conversationHistory, arrays, nextInv,
                 lastReturn, storeVars>>

\* processCall: the lines of the enhanced prompt, made of the user input, a
\* context line for every tool result and the status line
EnhancedPrompt(userInput, toolResults, isOpen) ==
  <<userInput>>
  \o (IF Len(toolResults) > 0
      THEN <<"Context:">> \o [k \in 1..Len(toolResults) |-> toolResults[k].tool]
      ELSE <<>>)
  \o <<IF isOpen THEN "Current status: Business is OPEN"
       ELSE "Current status: Business is CLOSED">>

\* the messages openaiService.generateResponse puts in the request
RequestMessages(messages) == messages

\* what is left of an invocation that threw
FailedCall(c) == [IdleCall EXCEPT !.pc = "failed", !.callId = c.callId, !.messages = c.messages]

\* what is left of an invocation that returned
ReturnedCall(c, result) ==
  [IdleCall EXCEPT !.pc = "done", !.callId = c.callId, !.messages = c.messages,
                   !.result = <<result>>]

\* processCall: isOpen = isBusinessHours(), then generateResponse is called:
\* it throws without a client, else the request leaves with the messages
ProcessCallSend(i) ==
  /\ calls[i].pc = "send"
  /\ IF apiKeyConfigured
     THEN calls' = [calls EXCEPT ![i].pc = "await", ![i].isOpen = clockOpen,
                                 ![i].lookups = <<>>,
                                 ![i].request = RequestMessages(arrays[calls[i].messages])]
     ELSE calls' = [calls EXCEPT ![i] = FailedCall(calls[i])]
  /\ UNCHANGED <<indexVars, apiKeyConfigured, clockOpen, conversationHistory, arrays, nextInv,
                 lastReturn, storeVars>>

\* the result object of processCall; open is what isBusinessHours() returns
\* when shouldHandoff calls it
CallResult(c, message, messages, open) ==
  LET needsHandoff == ShouldHandoff(c.intent, c.toolResults, open)
  IN  [callId |-> c.callId, intent |-> c.intent.name, confidence |-> c.intent.confidence,
       response |-> message, needsHandoff |-> needsHandoff,
       handoffReason |-> IF needsHandoff THEN GetHandoffReason(c.intent) ELSE "null",
       toolsUsed |-> [k \in 1..Len(c.toolResults) |-> c.toolResults[k].tool],
       isBusinessHours |-> c.isOpen,
       nonSystemMessages |-> NonSystemCount(messages),
       openAtDecision |-> open]

\* processCall after the provider answered: push the assistant message,
\* decide the handoff, return the result
ProcessCallReply(i, message) ==
  /\ calls[i].pc = "await"
  /\ LET ref == calls[i].messages
         log == Append(arrays[ref], Message("assistant", message, i))
     IN  /\ arrays' = [arrays EXCEPT ![ref] = log]
         /\ calls' = [calls EXCEPT ![i] =
                        ReturnedCall(calls[i], CallResult(calls[i], message, log, clockOpen))]
  /\ UNCHANGED <<indexVars, apiKeyConfigured, clockOpen, conversationHistory, nextInv,
                 lastReturn, storeVars>>

\* the provider call fails: generateResponse rethrows and so does processCall
ProcessCallFail(i) ==
  /\ calls[i].pc = "await"
  /\ calls' = [calls EXCEPT ![i] = FailedCall(calls[i])]
  /\ UNCHANGED <<indexVars, apiKeyConfigured, clockOpen, conversationHistory, arrays, nextInv,
                 lastReturn, storeVars>>

\* OrchestratorService.clearHistory
ClearHistory(callId) ==
  /\ conversationHistory' = [conversationHistory EXCEPT ![HistoryKey(callId)] = 0]
  /\ UNCHANGED <<indexVars, apiKeyConfigured, clockOpen, arrays, calls, nextInv, lastReturn, storeVars>>

\* messages.filter(m => m.role === role)
FilterRole(messages, role) ==
  LET F[k \in 0..Len(messages)] ==
        IF k = 0 THEN <<>>
        ELSE IF messages[k].role = role THEN Append(F[k - 1], messages[k]) ELSE F[k - 1]
  IN  F[Len(messages)]

NoReturn == [op |-> "none", callId |-> "", found |-> FALSE, messages |-> <<>>]

\* OrchestratorService.getConversationSummary; the messages returned are the
\* user messages followed by the assistant messages
GetConversationSummary(callId) ==
  /\ LET ref == conversationHistory[HistoryKey(callId)]
     IN  lastReturn' =
           IF ref = 0
           THEN [op |-> "summary", callId |-> callId, found |-> FALSE, messages |-> <<>>]
           ELSE [op |-> "summary", callId |-> callId, found |-> TRUE,
                 messages |-> FilterRole(arrays[ref], "user")
                              \o FilterRole(arrays[ref], "assistant")]
  /\ UNCHANGED <<indexVars, apiKeyConfigured, clockOpen, conversationHistory, arrays, calls, nextInv,
                 storeVars>>

\* twilioStatusWebhook for a terminal CallStatus of the call: it logs the
\* status and answers 200
TwilioStatusWebhook(callId) ==
  /\ lastReturn' = [op |-> "status", callId |-> callId, found |-> FALSE, messages |-> <<>>]
  /\ UNCHANGED <<indexVars, apiKeyConfigured, clockOpen, conversationHistory, arrays, calls, nextInv,
                 storeVars>>

\* time passes a boundary of the business hours
ClockTick ==
  /\ clockOpen' = ~clockOpen
  /\ UNCHANGED <<indexVars, apiKeyConfigured, conversationHistory, arrays, calls, nextInv,
                 lastReturn, storeVars>>

-----------------------------------------------------------------------------
(* Indexing: RAGService.indexDocument, reindexDocument, deleteDocument *)

IndexOps == 1..MaxIndexOps

\* the documents callers index: id and the number of chunks chunkBySentences
\* makes of the content (0: blank content)
IndexDocuments ==
  {[id |-> "d1", n |-> 1], [id |-> "d1", n |-> 2], [id |-> "d2", n |-> 0]}

\* seen, after and count are not stored by the program: the operations that
\* had started when the DELETE ran, and the (chunk index, content) pairs and
\* the row count of the document when the operation returned
IdleIndexOp ==
  [pc |-> "idle", kind |-> "none", owner |-> "none", doc |-> [id |-> "none", n |-> 0],
   insertOp |-> 0, result |-> 0, seen |-> {}, after |-> {}, count |-> 0]

\* the operation number a new call gets
NextIndexOp == Cardinality({j \in IndexOps : indexOps[j].pc # "idle"}) + 1

Started == {j \in IndexOps : indexOps[j].pc # "idle"}

\* a DELETE that removes nothing
DeleteKeepsRows(rows, d) == rows

\* DELETE FROM document_chunks WHERE document_id = $1: the rows it leaves
\* of the committed rows it sees (READ COMMITTED: an open transaction's rows
\* are not among them)
DeleteRows(rows, d) == {r \in rows : r.document_id # d}

\* result.rowCount of the DELETE
RowCount(rows, d) == Cardinality({r \in rows : r.document_id = d})

\* the (chunk_index, content) pairs the table holds of document d
PairsOf(rows, d) == {<<r.chunk_index, r.content>> : r \in {x \in rows : x.document_id = d}}

\* ragService.indexDocument(document): chunkBySentences, then the await of
\* generateEmbeddings
IndexDocumentStart(doc, owner) ==
  /\ NextIndexOp <= MaxIndexOps
  /\ indexOps' = [indexOps EXCEPT ![NextIndexOp] =
                    [IdleIndexOp EXCEPT !.pc = "embedding", !.kind = "index",
                                        !.owner = owner, !.doc = doc]]

\* ragService.reindexDocument(document) and ragService.deleteDocument(id):
\* up to the await of deleteDocumentChunks
DeleteStart(doc, kind) ==
  /\ NextIndexOp <= MaxIndexOps
  /\ indexOps' = [indexOps EXCEPT ![NextIndexOp] =
                    [IdleIndexOp EXCEPT !.pc = "deleting", !.kind = kind,
                                        !.owner = "caller", !.doc = doc]]
  /\ UNCHANGED <<convVars, storeVars, folder, textCall>>

ReindexDocumentStart(doc) == DeleteStart(doc, "reindex")

DeleteDocumentStart(d) == DeleteStart([id |-> d, n |-> 0], "delete")

\* vectorStoreService.deleteDocumentChunks: the DELETE statement; then
\* deleteDocument returns the count and reindexDocument goes on to
\* indexDocument
DeleteDocumentChunks(j) ==
  /\ indexOps[j].pc = "deleting"
  /\ chunks' = DeleteRows(chunks, indexOps[j].doc.id)
  /\ indexOps' = [indexOps EXCEPT
                    ![j].pc = IF indexOps[j].kind = "delete" THEN "returned" ELSE "embedding",
                    ![j].result = RowCount(chunks, indexOps[j].doc.id),
                    ![j].seen = Started]
  /\ UNCHANGED <<convVars, documents, inserts, nextOp, lastSearch, folder, textCall>>

\* generateEmbeddings throws: no client, no text to embed (blank content)
\* or the provider's failure; indexDocument rethrows
IndexDocumentEmbedFail(j) ==
  /\ indexOps[j].pc = "embedding"
  /\ indexOps' = [indexOps EXCEPT ![j].pc = "threw"]
  /\ UNCHANGED <<convVars, storeVars, folder, textCall>>

\* the embeddings arrive: chunksToInsert is built and insertChunks begins
IndexDocumentInsert(j) ==
  /\ indexOps[j].pc = "embedding"
  /\ apiKeyConfigured
  /\ indexOps[j].doc.n >= 1
  /\ nextOp <= MaxStoreOps
  /\ inserts' = [inserts EXCEPT ![nextOp] =
                   [IdleInsert EXCEPT !.pc = "open",
                                      !.batch = MakeBatch(indexOps[j].doc.id, indexOps[j].doc.n)]]
  /\ nextOp' = nextOp + 1
  /\ indexOps' = [indexOps EXCEPT ![j].pc = "inserting", ![j].insertOp = nextOp]
  /\ UNCHANGED <<convVars, documents, chunks, lastSearch, folder, textCall>>

\* insertChunks returned the ids: indexDocument returns
\* {documentId, chunksIndexed, chunkIds}
IndexDocumentReturn(j) ==
  /\ indexOps[j].pc = "inserting"
  /\ inserts[indexOps[j].insertOp].pc = "committed"
  /\ indexOps' = [indexOps EXCEPT ![j].pc = "returned",
                                  ![j].result = Len(inserts[indexOps[j].insertOp].ids),
                                  ![j].after = PairsOf(chunks, indexOps[j].doc.id),
                                  ![j].count = RowCount(chunks, indexOps[j].doc.id)]
  /\ UNCHANGED <<convVars, storeVars, folder, textCall>>

\* insertChunks threw: indexDocument (and reindexDocument) rethrows
IndexDocumentThrow(j) ==
  /\ indexOps[j].pc = "inserting"
  /\ inserts[indexOps[j].insertOp].pc = "rolledback"
  /\ indexOps' = [indexOps EXCEPT ![j].pc = "threw"]
  /\ UNCHANGED <<convVars, storeVars, folder, textCall>>

\* a caller's indexDocument
IndexDocumentCall(doc) ==
  /\ IndexDocumentStart(doc, "caller")
  /\ UNCHANGED <<convVars, storeVars, folder, textCall>>

-----------------------------------------------------------------------------
(* Folder indexing: DriveService.indexFolder, indexFile *)

\* the files a folder lists: the id, and whether the downloaded content is
\* blank; the content of a file with text makes one chunk
FileUniverse ==
  {[id |-> d, content |-> c] : d \in {"d1", "d2", "d9"}, c \in {"text", "blank"}}

\* the listings of a folder: files of distinct ids
FileLists ==
  UNION {{s \in [1..n -> FileUniverse] : \A a, b \in 1..n : s[a].id = s[b].id => a = b}
           : n \in 0..MaxFiles}

\* attempted and failed are not stored by the program: the files indexFile
\* was called on, and those on which it threw
IdleFolder ==
  [pc |-> "idle", files |-> <<>>, k |-> 1, op |-> 0, errors |-> <<>>,
   attempted |-> <<>>, failed |-> <<>>,
   result |-> [total |-> 0, indexed |-> 0, errors |-> <<>>]]

CurrentFile == folder.files[folder.k]

\* the for loop calls indexFile on the next file
Attempt(f) == [f EXCEPT !.attempted = Append(@, f.files[f.k].id)]

\* indexFile throws on the current file
Throws(f) == [f EXCEPT !.failed = Append(@, f.files[f.k].id)]

\* a catch block that lets the item's error end the loop
CatchItemAborts(f) == [f EXCEPT !.pc = "threw"]

\* the catch block of the loop: the error is recorded and the loop goes on
CatchItemError(f) ==
  [f EXCEPT !.errors = Append(@, [fileId |-> f.files[f.k].id]), !.k = @ + 1, !.pc = "loop"]

\* indexFolder: listFiles returned the files (all pages)
IndexFolderStart(files) ==
  /\ folder.pc = "idle"
  /\ folder' = [folder EXCEPT !.pc = "loop", !.files = files]
  /\ UNCHANGED <<convVars, storeVars, indexOps, textCall>>

\* indexFolder: listFiles throws, and so does indexFolder
IndexFolderListFails ==
  /\ folder.pc = "idle"
  /\ folder' = [folder EXCEPT !.pc = "threw"]
  /\ UNCHANGED <<convVars, storeVars, indexOps, textCall>>

\* indexFile: getFileMetadata or downloadFile throws
IndexFileFetchFails ==
  /\ folder.pc = "loop"
  /\ folder.k <= Len(folder.files)
  /\ folder' = CatchItemError(Throws(Attempt(folder)))
  /\ UNCHANGED <<convVars, storeVars, indexOps, textCall>>

\* indexFile: the content is blank, the file is skipped and null returned
IndexFileSkip ==
  /\ folder.pc = "loop"
  /\ folder.k <= Len(folder.files)
  /\ CurrentFile.content = "blank"
  /\ folder' = [Attempt(folder) EXCEPT !.k = @ + 1]
  /\ UNCHANGED <<convVars, storeVars, indexOps, textCall>>

\* indexFile: the document is prepared and ragService.indexDocument called
IndexFileIndex ==
  /\ folder.pc = "loop"
  /\ folder.k <= Len(folder.files)
  /\ CurrentFile.content = "text"
  /\ IndexDocumentStart([id |-> CurrentFile.id, n |-> 1], "folder")
  /\ folder' = [Attempt(folder) EXCEPT !.pc = "indexing", !.op = NextIndexOp]
  /\ UNCHANGED <<convVars, storeVars, textCall>>

\* indexFile: indexDocument returned, and so does indexFile
IndexFileDone ==
  /\ folder.pc = "indexing"
  /\ indexOps[folder.op].pc = "returned"
  /\ folder' = [folder EXCEPT !.pc = "loop", !.k = @ + 1]
  /\ UNCHANGED <<convVars, storeVars, indexOps, textCall>>

\* indexFile: indexDocument threw, indexFile rethrows
IndexFileFailed ==
  /\ folder.pc = "indexing"
  /\ indexOps[folder.op].pc = "threw"
  /\ folder' = CatchItemError(Throws(folder))
  /\ UNCHANGED <<convVars, storeVars, indexOps, textCall>>

\* indexFolder: after the last file, {total, indexed, errors} is returned
IndexFolderReturn ==
  /\ folder.pc = "loop"
  /\ folder.k > Len(folder.files)
  /\ folder' = [folder EXCEPT !.pc = "returned",
                              !.result = [total |-> Len(folder.files),
                                          indexed |-> Len(folder.files) - Len(folder.errors),
                                          errors |-> folder.errors]]
  /\ UNCHANGED <<convVars, storeVars, indexOps, textCall>>

-----------------------------------------------------------------------------
(* Text functions: chunkBySentences, chunkText, generateEmbeddings *)

NoTextCall == [fn |-> "none"]

\* the characters of the texts that are chunked, and the texts
TextChars == {"a", " ", ".", "?"}

Texts == UNION {[1..n -> TextChars] : n \in 0..MaxTextLen}

\* maxChunkSize of chunkBySentences; chunkSize and overlap of chunkText
ChunkSizes == 1..(MaxTextLen + 1)

WindowSizes == {1, 2}

Overlaps == {0, 1, 2}

\* String.prototype.trim
RECURSIVE TrimStart(_)
TrimStart(text) ==
  IF text # <<>> /\ IsSpace(Head(text)) THEN TrimStart(Tail(text)) ELSE text

RECURSIVE TrimEnd(_)
TrimEnd(text) ==
  IF text # <<>> /\ IsSpace(text[Len(text)])
  THEN TrimEnd(SubSeq(text, 1, Len(text) - 1)) ELSE text

Trim(text) == TrimEnd(TrimStart(text))

\* the class [.!?] of the sentence pattern
IsTerminator(c) == c \in {".", "!", "?"}

\* the index at which the run of characters that start at i and satisfy
\* (terminator = t) ends
RECURSIVE RunEnd(_, _, _)
RunEnd(text, i, t) ==
  IF i < Len(text) /\ (IsTerminator(text[i + 1]) = t) THEN RunEnd(text, i + 1, t) ELSE i

\* text.match(/[^.!?]+[.!?]+/g) from index p on: the matches, <<>> for null
RECURSIVE MatchSentences(_, _)
MatchSentences(text, p) ==
  IF p > Len(text) THEN <<>>
  ELSE IF IsTerminator(text[p]) THEN MatchSentences(text, p + 1)
  ELSE LET j == RunEnd(text, p, FALSE)
       IN  IF j = Len(text) THEN <<>>
           ELSE LET k == RunEnd(text, j + 1, TRUE)
                IN  <<SubSeq(text, p, k)>> \o MatchSentences(text, k + 1)

\* text.match(...) || [text]
SentencesOf(text) ==
  IF MatchSentences(text, 1) = <<>> THEN <<text>> ELSE MatchSentences(text, 1)

\* a test of the current chunk alone
FitsCurrent(currentChunk, trimmed, maxChunkSize) == Len(currentChunk) <= maxChunkSize

\* (currentChunk + ' ' + trimmed).length <= maxChunkSize
Fits(currentChunk, trimmed, maxChunkSize) ==
  Len(currentChunk) + 1 + Len(trimmed) <= maxChunkSize

\* the loop of chunkBySentences over the sentences from k on, and the push
\* of the last chunk
RECURSIVE PackSentences(_, _, _, _, _)
PackSentences(sentences, k, currentChunk, packed, maxChunkSize) ==
  IF k > Len(sentences)
  THEN IF currentChunk # <<>> THEN Append(packed, currentChunk) ELSE packed
  ELSE LET trimmed == Trim(sentences[k])
       IN  IF Fits(currentChunk, trimmed, maxChunkSize)
           THEN PackSentences(sentences, k + 1,
                              currentChunk \o (IF currentChunk # <<>> THEN <<" ">> ELSE <<>>)
                                           \o trimmed,
                              packed, maxChunkSize)
           ELSE PackSentences(sentences, k + 1, trimmed,
                              IF currentChunk # <<>> THEN Append(packed, currentChunk)
                              ELSE packed,
                              maxChunkSize)

\* EmbeddingsService.chunkBySentences
ChunkBySentences(text, maxChunkSize) ==
  IF IsBlank(text) THEN <<>>
  ELSE LET packed == PackSentences(SentencesOf(text), 1, <<>>, <<>>, maxChunkSize)
       IN  [k \in 1..Len(packed) |-> [text |-> packed[k], chunkIndex |-> k - 1]]

ChunkBySentencesCall(text, maxChunkSize) ==
  /\ textCall = NoTextCall
  /\ textCall' = [fn |-> "chunkBySentences", text |-> text, maxChunkSize |-> maxChunkSize,
                  output |-> ChunkBySentences(text, maxChunkSize)]
  /\ UNCHANGED <<convVars, storeVars, indexOps, folder>>

\* text.split(/\s+/): cur is the word being read
RECURSIVE SplitWords(_, _)
SplitWords(text, cur) ==
  IF text = <<>> THEN <<cur>>
  ELSE IF IsSpace(Head(text)) THEN <<cur>> \o SplitWords(TrimStart(text), <<>>)
  ELSE SplitWords(Tail(text), Append(cur, Head(text)))

\* Array.prototype.slice(start, end) on indexes counted from 0
Slice(words, start, end) ==
  LET n == Len(words)
      from == IF start < 0 THEN (IF n + start < 0 THEN 0 ELSE n + start) ELSE Min(start, n)
      to == IF end < 0 THEN (IF n + end < 0 THEN 0 ELSE n + end) ELSE Min(end, n)
  IN  SubSeq(words, from + 1, to)

\* Array.prototype.join(' ')
RECURSIVE JoinWords(_)
JoinWords(words) ==
  IF words = <<>> THEN <<>>
  ELSE IF Len(words) = 1 THEN words[1]
  ELSE words[1] \o <<" ">> \o JoinWords(Tail(words))

\* steps is not stored by the program: the iterations of the loop so far
\* chunkText: the guard and the split; the loop starts at i = 0
ChunkTextCall(text, chunkSize, overlap) ==
  /\ textCall = NoTextCall
  /\ textCall' = [fn |-> "chunkText", text |-> text, chunkSize |-> chunkSize,
                  overlap |-> overlap,
                  pc |-> IF IsBlank(text) THEN "returned" ELSE "loop",
                  words |-> IF IsBlank(text) THEN <<>> ELSE SplitWords(text, <<>>),
                  i |-> 0, chunks |-> <<>>, steps |-> 0]
  /\ UNCHANGED <<convVars, storeVars, indexOps, folder>>

\* chunkText: one iteration of the for loop
ChunkTextStep ==
  /\ textCall.fn = "chunkText"
  /\ textCall.pc = "loop"
  /\ textCall.i < Len(textCall.words)
  /\ textCall.steps < MaxLoopSteps
  /\ LET i == textCall.i
         chunk == JoinWords(Slice(textCall.words, i, i + textCall.chunkSize))
         item == [text |-> chunk, startIndex |-> i,
                  endIndex |-> Min(i + textCall.chunkSize, Len(textCall.words))]
     IN  textCall' = [textCall EXCEPT
                        !.chunks = IF ~IsBlank(chunk) THEN Append(@, item) ELSE @,
                        !.i = i + textCall.chunkSize - textCall.overlap,
                        !.steps = @ + 1]
  /\ UNCHANGED <<convVars, storeVars, indexOps, folder>>

\* chunkText: the loop condition fails and the chunks are returned
ChunkTextReturn ==
  /\ textCall.fn = "chunkText"
  /\ textCall.pc = "loop"
  /\ textCall.i >= Len(textCall.words)
  /\ textCall' = [textCall EXCEPT !.pc = "returned"]
  /\ UNCHANGED <<convVars, storeVars, indexOps, folder>>

\* the texts of a generateEmbeddings request; "" and " " are blank
EmbedTexts == {"t1", "t2", "", " "}

EmbedInputs == UNION {[1..n -> EmbedTexts] : n \in 0..MaxTexts}

\* text && text.trim().length > 0
IsValidText(t) == t \notin {"", " "}

\* validTexts.slice(i, i + batchSize) for i = 0, batchSize, ...
RECURSIVE SubBatches(_)
SubBatches(validTexts) ==
  IF validTexts = <<>> THEN <<>>
  ELSE <<SubSeq(validTexts, 1, Min(EmbedBatchSize, Len(validTexts)))>>
       \o SubBatches(SubSeq(validTexts, EmbedBatchSize + 1, Len(validTexts)))

\* response.data.map(item => item.embedding) of one request
ProviderEmbeddings(batch) == [k \in 1..Len(batch) |-> EmbeddingOf(batch[k])]

\* allEmbeddings.push(...embeddings) over the batches
RECURSIVE AllEmbeddings(_)
AllEmbeddings(batches) ==
  IF batches = <<>> THEN <<>>
  ELSE ProviderEmbeddings(Head(batches)) \o AllEmbeddings(Tail(batches))

\* EmbeddingsService.generateEmbeddings; requested are the texts sent to
\* the provider
GenerateEmbeddings(texts) ==
  LET validTexts == SelectSeq(texts, IsValidText)
  IN  IF ~apiKeyConfigured \/ texts = <<>> \/ validTexts = <<>>
      THEN [pc |-> "threw", requested |-> <<>>, output |-> <<>>]
      ELSE [pc |-> "returned", requested |-> validTexts,
            output |-> AllEmbeddings(SubBatches(validTexts))]

GenerateEmbeddingsCall(texts) ==
  /\ textCall = NoTextCall
  /\ textCall' = [fn |-> "generateEmbeddings", texts |-> texts,
                  result |-> GenerateEmbeddings(texts)]
  /\ UNCHANGED <<convVars, storeVars, indexOps, folder>>

\* orchestrator.detectIntent(text)
DetectIntentCall(u) ==
  /\ textCall = NoTextCall
  /\ textCall' = [fn |-> "detectIntent", input |-> u, output |-> DetectIntent(UtteranceText[u])]
  /\ UNCHANGED <<convVars, storeVars, indexOps, folder>>

-----------------------------------------------------------------------------
(* Ranking, retrieval and workflow calls: findMostSimilar, RAGService.query,
   the N8nService notifications *)

\* the embeddings given to findMostSimilar; a zero vector has norm 0
CandidateVectors == Vectors \cup {<<0, 0>>}

CandidateLists == UNION {[1..n -> CandidateVectors] : n \in 0..MaxCandidates}

\* the topK arguments of findMostSimilar
CandidateTopKs == {JsUndefined} \cup {JsNum(k) : k \in 0..(MaxCandidates + 1)}

\* topK = 5 in the parameter list of findMostSimilar
DefaultTopK == 5

\* EmbeddingsService.cosineSimilarity on embeddings of one dimension, in
\* hundredths: 0 when a norm is 0
CosineSimilarity(embedding1, embedding2) ==
  IF Dot(embedding1, embedding1) = 0 \/ Dot(embedding2, embedding2) = 0 THEN 0
  ELSE Similarity(embedding1, embedding2)

\* candidateEmbeddings.map((embedding, index) => ({index, similarity}))
Similarities(queryEmbedding, candidateEmbeddings) ==
  [k \in 1..Len(candidateEmbeddings) |->
     [index |-> k - 1,
      similarity |-> CosineSimilarity(queryEmbedding, candidateEmbeddings[k])]]

\* (a, b) => b.similarity - a.similarity
CompareDescending(a, b) == b.similarity - a.similarity

\* an insertion that puts an element before the elements it compares equal to
RECURSIVE InsertOrderedFirst(_, _)
InsertOrderedFirst(sorted, e) ==
  IF sorted = <<>> THEN <<e>>
  ELSE IF CompareDescending(Head(sorted), e) < 0
       THEN <<Head(sorted)>> \o InsertOrderedFirst(Tail(sorted), e)
       ELSE <<e>> \o sorted

\* the place Array.prototype.sort gives to an element that follows the
\* sorted ones in the array: after those the comparator does not put behind
\* it (the sort is stable)
RECURSIVE InsertOrdered(_, _)
InsertOrdered(sorted, e) ==
  IF sorted = <<>> THEN <<e>>
  ELSE IF CompareDescending(Head(sorted), e) <= 0
       THEN <<Head(sorted)>> \o InsertOrdered(Tail(sorted), e)
       ELSE <<e>> \o sorted

\* a sort that puts elements of equal similarity in reverse order
SortDescendingTiesReversed(similarities) ==
  LET F[k \in 0..Len(similarities)] ==
        IF k = 0 THEN <<>> ELSE InsertOrderedFirst(F[k - 1], similarities[k])
  IN  F[Len(similarities)]

\* similarities.sort((a, b) => b.similarity - a.similarity)
SortDescending(similarities) ==
  LET F[k \in 0..Len(similarities)] ==
        IF k = 0 THEN <<>> ELSE InsertOrdered(F[k - 1], similarities[k])
  IN  F[Len(similarities)]

\* EmbeddingsService.findMostSimilar
FindMostSimilar(queryEmbedding, candidateEmbeddings, topK) ==
  Slice(SortDescending(Similarities(queryEmbedding, candidateEmbeddings)), 0,
        DefaultNum(topK, JsNum(DefaultTopK)).v)

FindMostSimilarCall(queryEmbedding, candidateEmbeddings, topK) ==
  /\ textCall = NoTextCall
  /\ textCall' = [fn |-> "findMostSimilar", queryEmbedding |-> queryEmbedding,
                  candidateEmbeddings |-> candidateEmbeddings, topK |-> topK,
                  output |-> FindMostSimilar(queryEmbedding, candidateEmbeddings, topK)]
  /\ UNCHANGED <<convVars, storeVars, indexOps, folder>>

\* the questions and options of the ragService.query calls
Questions == {"u_hello", "u_blank"}

QueryOptions ==
  [topK : {JsUndefined, JsNum(1)}, threshold : {JsUndefined, JsNum(0)},
   accessLevel : {"undefined", "internal"}, category : {"undefined"},
   department : {"undefined"}]

\* the catch of a retrieval step that asks again, once
CatchRetries(call) ==
  IF call.pc = "embedding" /\ call.embedRequests < 2
  THEN [call EXCEPT !.embedRequests = @ + 1]
  ELSE IF call.pc = "searching" /\ call.searches < 2
  THEN [call EXCEPT !.searches = @ + 1]
  ELSE [call EXCEPT !.failedAt = call.pc, !.pc = "threw"]

\* the catch of generateEmbedding and of query: log the error and rethrow
CatchRethrows(call) == [call EXCEPT !.failedAt = call.pc, !.pc = "threw"]

\* ragService.query up to its first suspension: generateEmbedding throws
\* without a client or on blank text, else the embedding request is made.
\* embedRequests, searches and failedAt are not stored by the program: the
\* requests made to the embedding provider, the searchSimilar calls made,
\* and the step that failed
QueryStart(question, options) ==
  /\ textCall = NoTextCall
  /\ LET call == [fn |-> "query", pc |-> "embedding", question |-> question,
                  options |-> options, embedRequests |-> 0, searches |-> 0,
                  failedAt |-> "none", queryEmbedding |-> <<>>, result |-> <<>>]
     IN  textCall' = IF EmbeddingRefused(question) THEN CatchRethrows(call)
                     ELSE [call EXCEPT !.embedRequests = 1]
  /\ UNCHANGED <<convVars, storeVars, indexOps, folder>>

\* the embedding request fails
QueryEmbeddingFails ==
  /\ textCall.fn = "query" /\ textCall.pc = "embedding"
  /\ textCall' = CatchRethrows(textCall)
  /\ UNCHANGED <<convVars, storeVars, indexOps, folder>>

\* the embedding arrives and vectorStoreService.searchSimilar is called
QuerySearch(q) ==
  /\ textCall.fn = "query" /\ textCall.pc = "embedding"
  /\ textCall' = [textCall EXCEPT !.pc = "searching", !.queryEmbedding = q, !.searches = 1]
  /\ UNCHANGED <<convVars, storeVars, indexOps, folder>>

\* searchSimilar throws
QuerySearchFails ==
  /\ textCall.fn = "query" /\ textCall.pc = "searching"
  /\ textCall' = CatchRethrows(textCall)
  /\ UNCHANGED <<convVars, storeVars, indexOps, folder>>

\* the result object of query
QueryResult(question, results) ==
  [question |-> question, results |-> results, hasResults |-> Len(results) > 0,
   topScore |-> IF Len(results) > 0 THEN results[1].similarity ELSE 0]

\* searchSimilar returns and query returns its result object
QueryReturn ==
  /\ textCall.fn = "query" /\ textCall.pc = "searching"
  /\ \E r \in SearchSimilar(chunks, documents, textCall.queryEmbedding,
                             QuerySearchOptions(textCall.options)) :
        textCall' = [textCall EXCEPT !.pc = "returned",
                                     !.result = <<QueryResult(textCall.question, r)>>]
  /\ UNCHANGED <<convVars, storeVars, indexOps, folder>>

\* the notification methods of N8nService and the webhook each triggers
Notifications ==
  {"logCall", "sendEmailNotification", "syncToCRM", "requestCallback", "sendSMSNotification"}

WebhookPath(method) ==
  CASE method = "logCall" -> "log-call"
    [] method = "sendEmailNotification" -> "send-email"
    [] method = "syncToCRM" -> "crm-sync"
    [] method = "requestCallback" -> "request-callback"
    [] method = "sendSMSNotification" -> "send-sms"

\* what the POST of a webhook ends with
PostOutcomes == {"data", "network error", "status 500"}

\* N8nService.triggerWebhook: it throws without a client and rethrows the
\* error of the POST; posted tells whether the POST was made
TriggerWebhook(client, webhookPath, post) ==
  IF ~client
  THEN [threw |-> TRUE, value |-> "n8n service not initialized", posted |-> <<>>]
  ELSE IF post = "data"
  THEN [threw |-> FALSE, value |-> "data", posted |-> <<webhookPath>>]
  ELSE [threw |-> TRUE, value |-> post, posted |-> <<webhookPath>>]

\* a notification method that lets the error of the trigger through
NotifyRethrows(client, method, post) == TriggerWebhook(client, WebhookPath(method), post)

\* logCall, sendEmailNotification, syncToCRM, requestCallback,
\* sendSMSNotification: return what triggerWebhook returns, null when it throws
Notify(client, method, post) ==
  LET triggered == TriggerWebhook(client, WebhookPath(method), post)
  IN  IF triggered.threw THEN [triggered EXCEPT !.threw = FALSE, !.value = "null"]
      ELSE triggered

\* a call of a notification method; client is whether the service has its
\* credentials
NotifyCall(client, method, post) ==
  /\ textCall = NoTextCall
  /\ textCall' = [fn |-> "notify", method |-> method, client |-> client, post |-> post,
                  output |-> Notify(client, method, post)]
  /\ UNCHANGED <<convVars, storeVars, indexOps, folder>>

-----------------------------------------------------------------------------
(* Specifications *)

\* the chunks indexed before the calls are served
IndexedChunks == {r \in RowUniverse : r.id \in {1, 4}}

Init ==
  /\ apiKeyConfigured \in BOOLEAN
  /\ clockOpen \in BOOLEAN
  /\ conversationHistory = [c \in CallIds |-> 0]
  /\ arrays = [r \in Invs |-> <<>>]
  /\ calls = [i \in Invs |-> IdleCall]
  /\ nextInv = 1
  /\ lastReturn = NoReturn
  /\ documents = DocTable
  /\ chunks = IndexedChunks
  /\ inserts = [o \in StoreOps |-> IdleInsert]
  /\ nextOp = 1
  /\ lastSearch = NoSearch
  /\ indexOps = [j \in IndexOps |-> IdleIndexOp]
  /\ folder = IdleFolder
  /\ textCall = NoTextCall

\* a caller starts a turn, while the run has turns left
StartTurn(c, u, x) == nextInv <= MaxTurns /\ ProcessCallStart(c, u, x)

StartCallTurn(c) == nextInv <= MaxCallTurns /\ ProcessCallStart(c, "u_hello", NoContext)

\* the turns of the calls
Next ==
  \/ \E c \in CallIds, u \in TurnInputs, x \in Contexts : StartTurn(c, u, x)
  \/ \E i \in Invs : ProcessCallGather(i)
  \/ \E i \in Invs : ProcessCallSend(i)
  \/ \E i \in Invs : ProcessCallReply(i, "reply")
  \/ \E i \in Invs : ProcessCallFail(i)
  \/ \E c \in CallIds : ClearHistory(c)
  \/ ClockTick

Spec == Init /\ [][Next]_vars

\* concurrent turns of a configured deployment, with the operations on the
\* conversation table and the status events of the telephony provider
InitCalls == Init /\ apiKeyConfigured /\ clockOpen

NextCalls ==
  \/ \E c \in CallIds : StartCallTurn(c)
  \/ \E i \in Invs : ProcessCallGather(i)
  \/ \E i \in Invs : ProcessCallSend(i)
  \/ \E i \in Invs : ProcessCallReply(i, "reply")
  \/ \E i \in Invs : ProcessCallFail(i)
  \/ \E c \in CallIds : ClearHistory(c)
  \/ \E c \in CallIds : GetConversationSummary(c)
  \/ \E c \in CallIds : TwilioStatusWebhook(c)

SpecCalls == InitCalls /\ [][NextCalls]_vars

\* the insertChunks transactions on the store
InitStore == Init /\ apiKeyConfigured /\ clockOpen /\ chunks = IndexedChunks

NextStore ==
  \/ \E b \in Batches : InsertChunksBegin(b)
  \/ \E o \in StoreOps : InsertChunksItem(o)
  \/ \E o \in StoreOps : InsertChunksFail(o)
  \/ \E o \in StoreOps : InsertChunksCommit(o)

SpecStore == InitStore /\ [][NextStore]_vars

\* one search or query on a populated store (a search changes nothing a
\* later search reads)
InitSearch ==
  /\ apiKeyConfigured = TRUE
  /\ clockOpen = TRUE
  /\ conversationHistory = [c \in CallIds |-> 0]
  /\ arrays = [r \in Invs |-> <<>>]
  /\ calls = [i \in Invs |-> IdleCall]
  /\ nextInv = 1
  /\ lastReturn = NoReturn
  /\ documents = DocTable
  /\ chunks \in SUBSET RowUniverse
  /\ inserts = [o \in StoreOps |-> IdleInsert]
  /\ nextOp = 1
  /\ lastSearch = NoSearch
  /\ indexOps = [j \in IndexOps |-> IdleIndexOp]
  /\ folder = IdleFolder
  /\ textCall = NoTextCall

FirstSearch(q, o) == lastSearch = NoSearch /\ SearchSimilarCall(q, o)

FirstQuery(q, o) == lastSearch = NoSearch /\ QueryCall("u_hello", q, o)

FirstQueryThrows(o) == lastSearch = NoSearch /\ QueryThrows("u_hello", o)

NextSearch ==
  \/ \E q \in Vectors, o \in SearchOptions : FirstSearch(q, o)
  \/ \E q \in Vectors, o \in SearchOptions : FirstQuery(q, o)
  \/ \E o \in SearchOptions : FirstQueryThrows(o)

SpecSearch == InitSearch /\ [][NextSearch]_vars

\* concurrent indexDocument, reindexDocument and deleteDocument calls, and
\* a search of the whole store
IndexSearchOptions ==
  [topK |-> JsUndefined, threshold |-> JsNum(0), accessLevel |-> "null",
   category |-> "undefined", department |-> "undefined"]

InitIndex == Init /\ apiKeyConfigured /\ clockOpen

SearchAll == lastSearch = NoSearch /\ SearchSimilarCall(<<1, 1>>, IndexSearchOptions)

NextIndex ==
  \/ \E doc \in IndexDocuments : IndexDocumentCall(doc)
  \/ \E doc \in IndexDocuments : ReindexDocumentStart(doc)
  \/ \E d \in {"d1", "d2"} : DeleteDocumentStart(d)
  \/ \E j \in IndexOps : DeleteDocumentChunks(j)
  \/ \E j \in IndexOps : IndexDocumentEmbedFail(j)
  \/ \E j \in IndexOps : IndexDocumentInsert(j)
  \/ \E o \in StoreOps : InsertChunksItem(o)
  \/ \E o \in StoreOps : InsertChunksFail(o)
  \/ \E o \in StoreOps : InsertChunksCommit(o)
  \/ \E j \in IndexOps : IndexDocumentReturn(j)
  \/ \E j \in IndexOps : IndexDocumentThrow(j)
  \/ SearchAll

SpecIndex == InitIndex /\ [][NextIndex]_vars

\* reindexDocument calls made one after the other
NoneInFlight == \A j \in IndexOps : indexOps[j].pc \in {"idle", "returned", "threw"}

ReindexWhenQuiet(doc) == NoneInFlight /\ ReindexDocumentStart(doc)

NextReindex ==
  \/ \E doc \in IndexDocuments : ReindexWhenQuiet(doc)
  \/ \E j \in IndexOps : DeleteDocumentChunks(j)
  \/ \E j \in IndexOps : IndexDocumentEmbedFail(j)
  \/ \E j \in IndexOps : IndexDocumentInsert(j)
  \/ \E o \in StoreOps : InsertChunksItem(o)
  \/ \E o \in StoreOps : InsertChunksFail(o)
  \/ \E o \in StoreOps : InsertChunksCommit(o)
  \/ \E j \in IndexOps : IndexDocumentReturn(j)
  \/ \E j \in IndexOps : IndexDocumentThrow(j)

SpecReindex == InitIndex /\ [][NextReindex]_vars

\* reindexDocument calls made one after the other, and a search of the
\* whole store at any moment
NextReindexSearch ==
  \/ NextReindex
  \/ SearchAll

SpecReindexSearch == InitIndex /\ [][NextReindexSearch]_vars

\* one indexFolder call
NextFolder ==
  \/ \E files \in FileLists : IndexFolderStart(files)
  \/ IndexFolderListFails
  \/ IndexFileFetchFails
  \/ IndexFileSkip
  \/ IndexFileIndex
  \/ IndexFileDone
  \/ IndexFileFailed
  \/ IndexFolderReturn
  \/ \E j \in IndexOps : IndexDocumentEmbedFail(j)
  \/ \E j \in IndexOps : IndexDocumentInsert(j)
  \/ \E o \in StoreOps : InsertChunksItem(o)
  \/ \E o \in StoreOps : InsertChunksFail(o)
  \/ \E o \in StoreOps : InsertChunksCommit(o)
  \/ \E j \in IndexOps : IndexDocumentReturn(j)
  \/ \E j \in IndexOps : IndexDocumentThrow(j)

SpecFolder == InitIndex /\ [][NextFolder]_vars

\* one call of a text function
NextText ==
  \/ \E u \in Utterances : DetectIntentCall(u)
  \/ \E t \in Texts, m \in ChunkSizes : ChunkBySentencesCall(t, m)
  \/ \E t \in Texts, s \in WindowSizes, o \in Overlaps : ChunkTextCall(t, s, o)
  \/ ChunkTextStep
  \/ ChunkTextReturn
  \/ \E ts \in EmbedInputs : GenerateEmbeddingsCall(ts)

SpecText == InitIndex /\ [][NextText]_vars

\* one call of findMostSimilar, of ragService.query or of a notification
InitTools == Init /\ clockOpen

NextTools ==
  \/ \E q \in CandidateVectors, cs \in CandidateLists, k \in CandidateTopKs :
        FindMostSimilarCall(q, cs, k)
  \/ \E question \in Questions, o \in QueryOptions : QueryStart(question, o)
  \/ QueryEmbeddingFails
  \/ \E q \in Vectors : QuerySearch(q)
  \/ QuerySearchFails
  \/ QueryReturn
  \/ \E client \in BOOLEAN, method \in Notifications, post \in PostOutcomes :
        NotifyCall(client, method, post)

SpecTools == InitTools /\ [][NextTools]_vars

-----------------------------------------------------------------------------
(* Properties *)

\* the stored log of a call, <<>> when the table has no entry
LogOf(c) ==
  IF conversationHistory[HistoryKey(c)] = 0 THEN <<>>
  ELSE arrays[conversationHistory[HistoryKey(c)]]

\* the turns that returned, and their results
Returned == {i \in Invs : calls[i].pc = "done"}

ResultOf(i) == calls[i].result[1]

\* C1: the needsHandoff of every returned turn is the outcome of the
\* priority-ordered rule list on that turn's intent, confidence, business
\* hours and knowledge-base hit: agent_request, else confidence < 0.3, else
\* technical_support within business hours, else no knowledge-base result
\* and not general_inquiry, else false.
C1_HandoffIsRuleList ==
  \A i \in Returned :
     LET r == ResultOf(i)
         knowledge == \E k \in 1..Len(r.toolsUsed) : r.toolsUsed[k] = "knowledge_base"
     IN  r.needsHandoff =
           (\/ r.intent = "agent_request"
            \/ r.confidence < 30
            \/ (r.intent = "technical_support" /\ r.openAtDecision)
            \/ (~knowledge /\ r.intent # "general_inquiry"))

\* a technical_support turn outside business hours with a knowledge-base
\* hit returned without handoff
C1_Witness ==
  \E i \in Returned :
     /\ ResultOf(i).intent = "technical_support"
     /\ ~ResultOf(i).needsHandoff
     /\ ~ResultOf(i).openAtDecision

\* the rule of the list that matches first on a result
FirstRule(r) ==
  LET knowledge == \E k \in 1..Len(r.toolsUsed) : r.toolsUsed[k] = "knowledge_base"
  IN  IF r.intent = "agent_request" THEN "explicit_request"
      ELSE IF r.confidence < 30 THEN "low_confidence"
      ELSE IF r.intent = "technical_support" /\ r.openAtDecision THEN "specialist_required"
      ELSE IF ~knowledge /\ r.intent # "general_inquiry" THEN "no_knowledge"
      ELSE "none"

\* the text the reasons table of getHandoffReason holds for a rule
ReasonText(rule) ==
  CASE rule = "explicit_request" -> "Customer requested human agent"
    [] rule = "low_confidence" -> "Unable to understand request clearly"
    [] rule = "specialist_required" -> "Technical support requires specialist"
    [] rule = "no_knowledge" -> "Information not available in knowledge base"
    [] OTHER -> "null"

\* C2: whenever a turn hands off, its handoffReason is the reason of the
\* first rule that matched (explicit_request, low_confidence,
\* specialist_required, no_knowledge), and an agent_request turn reports
\* explicit_request.
C2_ReasonOfFirstRule ==
  \A i \in Returned :
     ResultOf(i).needsHandoff =>
        ResultOf(i).handoffReason = ReasonText(FirstRule(ResultOf(i)))

\* C3: turns of one call id do not interleave: in every stored log a user
\* message that is not the last entry is followed by the assistant reply of
\* its own turn (or its turn threw).
C3_TurnsSerialized ==
  \A c \in CallIds :
     \A k \in 1..(Len(LogOf(c)) - 1) :
        LogOf(c)[k].role = "user" =>
           \/ (LogOf(c)[k + 1].role = "assistant" /\ LogOf(c)[k + 1].inv = LogOf(c)[k].inv)
           \/ calls[LogOf(c)[k].inv].pc = "failed"

\* the messages of a sequence were all pushed by turns of call c
OwnedBy(messages, c) ==
  \A k \in 1..Len(messages) : messages[k].inv = 0 \/ calls[messages[k].inv].callId = c

IsPrefix(s, t) == Len(s) <= Len(t) /\ \A k \in 1..Len(s) : s[k] = t[k]

C4_StateIsolation ==
  /\ \A c \in CallIds : OwnedBy(LogOf(c), c)
  /\ \A i \in Invs :
        calls[i].pc = "await" =>
           /\ OwnedBy(calls[i].request, calls[i].callId)
           /\ IsPrefix(calls[i].request, arrays[calls[i].messages])
           /\ \E k \in 1..Len(calls[i].request) : calls[i].request[k].inv = i
  /\ lastReturn.op = "summary" => OwnedBy(lastReturn.messages, lastReturn.callId)

C4_StepIsolation ==
  \A b \in CallIds :
     LogOf(b)' # LogOf(b) =>
        \/ \E i \in Invs : calls[i]' # calls[i] /\ calls[i]'.callId = b
        \/ (conversationHistory[b] # 0 /\ conversationHistory'[b] = 0 /\ UNCHANGED arrays)

C5_SystemFirst ==
  \A c \in CallIds :
     conversationHistory[c] # 0 =>
        /\ Len(LogOf(c)) >= 1
        /\ LogOf(c)[1] = Message("system", SystemPrompt, 0)
        /\ \A k \in 2..Len(LogOf(c)) : LogOf(c)[k].role # "system"

C5_CreatedByFirstTurn ==
  \A c \in CallIds :
     (conversationHistory[c] = 0 /\ conversationHistory'[c] # 0) =>
        /\ nextInv' = nextInv + 1
        /\ calls'[nextInv].callId = c
        /\ calls'[nextInv].pc = "gather"
        /\ Len(LogOf(c)') = 2
        /\ LogOf(c)'[2].inv = nextInv

\* C5: the table starts without entries, an entry for a call id comes into
\* being only in the first step of a processCall of that id, and every
\* stored log starts with the system prompt and holds no other system entry.
C5_LazySystemFirst ==
  /\ \A c \in CallIds : conversationHistory[c] = 0
  /\ []C5_SystemFirst
  /\ [][C5_CreatedByFirstTurn]_vars

\* a log that holds two whole turns
C5_Witness == \E c \in CallIds : Len(LogOf(c)) >= 5

\* C6: after the terminal status event of a call is handled, or after
\* clearHistory(callId), the table holds no entry for that call id.
C6_DestroyedOnTermination ==
  [][\A c \in CallIds :
       (TwilioStatusWebhook(c) \/ ClearHistory(c)) => conversationHistory'[c] = 0]_vars

\* C7: no turn ends with an error and no reply: a turn that met a failure
\* still returns a result.
C7_NeverSilent == \A i \in Invs : calls[i].pc # "failed"

\* C8: insertChunks is all-or-nothing: of a call that failed no row is in the
\* table and the error was raised, of a call still running no row is in the
\* table, and of a call that returned every item has its row in the table
\* and the ids returned are those rows' ids in batch order.
C8_InsertAllOrNothing ==
  \A o \in StoreOps :
     LET ins == inserts[o]
     IN  /\ ins.pc \in {"open", "rolledback"} => ~\E r \in chunks : r.op = o
         /\ ins.pc = "rolledback" => ins.thrown /\ ins.ids = <<>>
         /\ ins.pc = "committed" =>
              /\ ~ins.thrown
              /\ Len(ins.ids) = Len(ins.batch)
              /\ Cardinality({r \in chunks : r.op = o}) = Len(ins.batch)
              /\ \A k \in 1..Len(ins.batch) :
                    \E r \in chunks :
                       /\ r.op = o
                       /\ r.id = ins.ids[k]
                       /\ r.document_id = ins.batch[k].documentId
                       /\ r.chunk_index = ins.batch[k].chunkIndex
                       /\ r.content = ins.batch[k].content

\* a batch failed after its first item was inserted, and another batch of
\* two items was committed
C8_Witness ==
  \E o, p \in StoreOps :
     /\ inserts[o].pc = "rolledback" /\ inserts[o].failedAt >= 1
     /\ inserts[p].pc = "committed" /\ Len(inserts[p].batch) >= 2

\* the topK and threshold the caller asked for (the configured ones when
\* the caller gave none)
RequestedTopK(options) == IF options.topK.def THEN options.topK.v ELSE ConfigTopK

RequestedThreshold(options) ==
  IF options.threshold.def THEN options.threshold.v ELSE ConfigSimilarityThreshold

Searched == lastSearch.via # "none" /\ ~lastSearch.thrown

\* C9: a search (searchSimilar or ragService.query) returns only chunks of
\* similarity at least the requested threshold, by similarity descending,
\* and at most topK of them, for every topK >= 0.
C9_SearchBounds ==
  Searched =>
     LET res == lastSearch.results
     IN  /\ \A k \in 1..Len(res) : res[k].similarity >= RequestedThreshold(lastSearch.options)
         /\ \A k \in 1..(Len(res) - 1) : res[k].similarity >= res[k + 1].similarity
         /\ Len(res) <= RequestedTopK(lastSearch.options)

\* C10: a search or query for access level L returns only chunks of
\* documents of access level L, a given category or department is matched
\* likewise, and a query without an access level (as a searchSimilar whose
\* options name none) returns only chunks of public documents.
C10_AccessGated ==
  Searched =>
     LET res == lastSearch.results
         o == lastSearch.options
     IN  /\ TruthyStr(o.accessLevel) =>
               \A k \in 1..Len(res) : documents[res[k].documentId].access_level = o.accessLevel
         /\ TruthyStr(o.category) =>
               \A k \in 1..Len(res) : documents[res[k].documentId].category = o.category
         /\ TruthyStr(o.department) =>
               \A k \in 1..Len(res) : documents[res[k].documentId].department = o.department
         /\ (lastSearch.via = "query" /\ ~TruthyStr(o.accessLevel)) =>
               \A k \in 1..Len(res) : documents[res[k].documentId].access_level = "public"
         /\ (lastSearch.via = "searchSimilar" /\ o.accessLevel = "undefined") =>
               \A k \in 1..Len(res) : documents[res[k].documentId].access_level = "public"

\* a query without an access level returned a public chunk although an
\* internal chunk is as similar to the question
C10_Witness ==
  /\ Searched
  /\ lastSearch.via = "query"
  /\ lastSearch.options.accessLevel = "null"
  /\ Len(lastSearch.results) >= 1
  /\ \E r \in chunks :
        /\ documents[r.document_id].access_level = "internal"
        /\ \E p \in chunks :
              /\ p.id = lastSearch.results[1].id
              /\ p.embedding = r.embedding

-----------------------------------------------------------------------------
(* Properties of indexing *)

\* the delete calls that returned
Deleted == {j \in IndexOps : indexOps[j].kind = "delete" /\ indexOps[j].pc = "returned"}

\* C11: once deleteDocument(id) has returned, a search returns no chunk of
\* document id, as long as no indexing of the document started after the
\* DELETE ran (one in flight during the delete included); and a delete of
\* an id without chunks returns the count 0 and does not throw.
C11_DeletedStaysDeleted ==
  [][/\ \A j \in Deleted :
          (lastSearch' # lastSearch /\ Started \subseteq indexOps[j].seen) =>
             \A k \in 1..Len(lastSearch'.results) :
                lastSearch'.results[k].documentId # indexOps[j].doc.id
     /\ \A j \in IndexOps :
          (/\ indexOps[j].kind = "delete" /\ indexOps[j].pc = "deleting"
           /\ indexOps'[j].pc # "deleting"
           /\ RowCount(chunks, indexOps[j].doc.id) = 0) =>
             indexOps'[j].pc = "returned" /\ indexOps'[j].result = 0 /\ chunks' = chunks]_vars

\* the reindexDocument calls that returned
Reindexed == {j \in IndexOps : indexOps[j].kind = "reindex" /\ indexOps[j].pc = "returned"}

\* C12: two reindexDocument calls of the same unchanged document, made one
\* after the other, each leave the store with the same number of chunks of
\* the document and the same (chunk index, content) pairs; the chunk ids of
\* the two differ.
C12_ReindexIdempotent ==
  \A j, k \in Reindexed :
     (j # k /\ indexOps[j].doc = indexOps[k].doc) =>
        /\ indexOps[j].after = indexOps[k].after
        /\ indexOps[j].count = indexOps[k].count
        /\ Range(inserts[indexOps[j].insertOp].ids)
              \cap Range(inserts[indexOps[k].insertOp].ids) = {}

\* a document of two chunks, indexed before, was reindexed twice
C12_Witness ==
  \E j, k \in Reindexed :
     /\ j # k
     /\ indexOps[j].doc = [id |-> "d1", n |-> 2]
     /\ indexOps[k].doc = [id |-> "d1", n |-> 2]
     /\ indexOps[k].count = 2
     /\ \E r \in IndexedChunks : r.document_id = "d1"

\* C13: no two stored chunks share document id and chunk index.
C13_ChunkIndexUnique ==
  \A r, s \in chunks :
     (r.document_id = s.document_id /\ r.chunk_index = s.chunk_index) => r = s

\* the ids of the listed files
FileIds(files) == [k \in 1..Len(files) |-> files[k].id]

\* C14: indexFolder calls indexFile on every listed file, in order, also
\* after failures; it records one error per file on which indexFile threw;
\* it throws only when the listing failed; and it returns total = the
\* number of listed files and indexed = total - errors.length.
C14_FaultIsolation ==
  /\ folder.pc = "threw" => folder.attempted = <<>>
  /\ folder.pc = "returned" =>
        /\ folder.attempted = FileIds(folder.files)
        /\ [k \in 1..Len(folder.result.errors) |-> folder.result.errors[k].fileId]
              = folder.failed
        /\ folder.result.total = Len(folder.files)
        /\ folder.result.indexed = folder.result.total - Len(folder.result.errors)

\* a folder of two files returned: the first file failed, the second was
\* indexed
C14_Witness ==
  /\ folder.pc = "returned"
  /\ Len(folder.files) = 2
  /\ folder.failed = <<folder.files[1].id>>
  /\ \E r \in chunks : r.document_id = folder.files[2].id /\ r.op # 0

\* the listed files whose chunks the call stored
Retrievable ==
  {k \in 1..Len(folder.files) :
     \E r \in chunks : r.document_id = folder.files[k].id /\ r.op # 0}

\* C15: the indexed count indexFolder returns is the number of listed
\* files whose chunks are in the store afterwards.
C15_IndexedAreRetrievable ==
  folder.pc = "returned" => folder.result.indexed = Cardinality(Retrievable)

-----------------------------------------------------------------------------
(* Properties of the text functions *)

\* C16: generateEmbeddings sends no blank text to the provider, and the
\* list it returns is as long as its input, entry i being the embedding of
\* text i, or the marker "skipped" when text i is blank.
C16_EmbeddingsAligned ==
  textCall.fn = "generateEmbeddings" =>
     LET texts == textCall.texts
         res == textCall.result
     IN  /\ \A k \in 1..Len(res.requested) : IsValidText(res.requested[k])
         /\ res.pc = "returned" =>
               /\ Len(res.output) = Len(texts)
               /\ \A i \in 1..Len(texts) :
                     res.output[i] = IF IsValidText(texts[i]) THEN EmbeddingOf(texts[i])
                                     ELSE "skipped"

\* the number of keywords of intent k that the lowercased text contains
Score(k, lowerText) ==
  Cardinality({n \in 1..Len(IntentKeywords[k].keywords) :
                 Includes(lowerText, IntentKeywords[k].keywords[n])})

\* the highest score of an intent
BestScore(lowerText) ==
  CHOOSE m \in 0..10 :
     /\ \A k \in 1..Len(IntentKeywords) : Score(k, lowerText) <= m
     /\ m = 0 \/ \E k \in 1..Len(IntentKeywords) : Score(k, lowerText) = m

\* the intents that reach the highest score, when a keyword matches
TopIntents(lowerText) ==
  {IntentKeywords[k].name :
     k \in {n \in 1..Len(IntentKeywords) :
              Score(n, lowerText) = BestScore(lowerText) /\ BestScore(lowerText) > 0}}

\* C17: detectIntent returns an intent of the highest keyword score on the
\* lowercased utterance, with confidence min(score x 0.3, 0.95), and
\* general_inquiry with confidence 0 exactly when no keyword matches; an
\* utterance in capitals is classified as in lower case.
C17_ClassifyByScore ==
  textCall.fn = "detectIntent" =>
     LET lowerText == ToLowerCase(UtteranceText[textCall.input])
         best == BestScore(lowerText)
         out == textCall.output
     IN  /\ out.confidence = Min(best * 30, 95)
         /\ best > 0 => out.name \in TopIntents(lowerText)
         /\ best = 0 <=> (out.name = "general_inquiry" /\ out.confidence = 0)
         /\ textCall.input = "u_agent" => out.name = "agent_request"

\* an utterance in which four keywords of an intent match was classified,
\* with the confidence at its cap
C17_Witness ==
  /\ textCall.fn = "detectIntent"
  /\ BestScore(ToLowerCase(UtteranceText[textCall.input])) = 4
  /\ textCall.output = [name |-> "technical_support", confidence |-> 95]

\* the intent names in alphabetical order
AlphabeticalOrder ==
  <<"agent_request", "appointment", "business_hours", "contact", "location", "pricing",
    "services", "technical_support">>

\* C18: among the intents of the highest score detectIntent returns the
\* first in alphabetical order of the names.
C18_TieAlphabetical ==
  textCall.fn = "detectIntent" =>
     LET top == TopIntents(ToLowerCase(UtteranceText[textCall.input]))
     IN  top # {} =>
            \E a \in 1..Len(AlphabeticalOrder) :
               /\ AlphabeticalOrder[a] = textCall.output.name
               /\ AlphabeticalOrder[a] \in top
               /\ \A b \in 1..(a - 1) : AlphabeticalOrder[b] \notin top

\* the trimmed sentences of a text
TrimmedSentences(text) ==
  [k \in 1..Len(SentencesOf(text)) |-> Trim(SentencesOf(text)[k])]

\* texts are the sentences, in order, grouped into runs joined by a space
RECURSIVE Grouped(_, _)
Grouped(texts, sentences) ==
  IF texts = <<>> THEN sentences = <<>>
  ELSE \E b \in 1..Len(sentences) :
          /\ texts[1] = JoinWords(SubSeq(sentences, 1, b))
          /\ Grouped(Tail(texts), SubSeq(sentences, b + 1, Len(sentences)))

\* C19: every chunk of chunkBySentences(text, M) is at most M long or is
\* one sentence longer than M, whole; the chunks are the sentences in
\* order, none split; the chunk indexes are 0..n-1; blank text gives no
\* chunk.
C19_SentenceChunks ==
  textCall.fn = "chunkBySentences" =>
     LET out == textCall.output
         sentences == TrimmedSentences(textCall.text)
         M == textCall.maxChunkSize
     IN  IF IsBlank(textCall.text) THEN out = <<>>
         ELSE /\ \A k \in 1..Len(out) :
                    /\ out[k].chunkIndex = k - 1
                    /\ \/ Len(out[k].text) <= M
                       \/ \E n \in 1..Len(sentences) :
                             out[k].text = sentences[n] /\ Len(sentences[n]) > M
              /\ Grouped([k \in 1..Len(out) |-> out[k].text], sentences)

\* two sentences were put in one chunk, and a sentence longer than the
\* maximum was emitted after another chunk
C19_Witness ==
  /\ textCall.fn = "chunkBySentences"
  /\ \/ /\ Len(textCall.output) = 1
        /\ Len(TrimmedSentences(textCall.text)) = 2
     \/ /\ Len(textCall.output) = 2
        /\ Len(textCall.output[2].text) > textCall.maxChunkSize

\* C20: chunkText of a text with words fails with a configuration error
\* when overlap >= size; otherwise the window starts at multiples of
\* size - overlap and the loop ends after at most one iteration per word.
C20_WindowTerminates ==
  textCall.fn = "chunkText" =>
     /\ (textCall.overlap >= textCall.chunkSize /\ ~IsBlank(textCall.text)) =>
           textCall.pc = "threw"
     /\ textCall.i = textCall.steps * (textCall.chunkSize - textCall.overlap)
     /\ textCall.steps <= Len(textCall.words)

\* whether a result lists the knowledge base among its tools
UsedKnowledge(r) == \E k \in 1..Len(r.toolsUsed) : r.toolsUsed[k] = "knowledge_base"

\* C25: every returned turn classified general_inquiry has confidence 0 and
\* needsHandoff = true, and a turn returns without handoff only when a
\* keyword matched (confidence at least 0.3) and a knowledge-base result
\* was found.
C25_GeneralInquiryHandsOff ==
  \A i \in Returned :
     LET r == ResultOf(i)
     IN  /\ r.intent = "general_inquiry" => (r.confidence = 0 /\ r.needsHandoff)
         /\ ~r.needsHandoff =>
               (r.intent # "general_inquiry" /\ r.confidence >= 30 /\ UsedKnowledge(r))

\* a general_inquiry turn whose knowledge-base lookup found results was
\* handed off for low confidence
C25_Witness ==
  \E i \in Returned :
     /\ ResultOf(i).intent = "general_inquiry"
     /\ UsedKnowledge(ResultOf(i))
     /\ ResultOf(i).confidence = 0
     /\ ResultOf(i).needsHandoff

\* the turns of a call that are in flight
InFlight(c) == {i \in Invs : calls[i].callId = c /\ calls[i].pc \in {"gather", "send", "await"}}

\* a log that, after the system prompt, alternates user and assistant
\* entries and ends with an assistant entry
Alternates(log) ==
  /\ Len(log) % 2 = 1
  /\ \A k \in 2..Len(log) :
        log[k].role = (IF k % 2 = 0 THEN "user" ELSE "assistant")

\* C26: whenever no turn of a call is in flight, whatever turns succeeded
\* or failed before, the log of the call after the system prompt strictly
\* alternates user and assistant entries, and conversationTurns of every
\* result (the non-system messages halved) is a whole number.
C26_LogAlternates ==
  /\ \A c \in CallIds :
        (InFlight(c) = {} /\ LogOf(c) # <<>>) => Alternates(LogOf(c))
  /\ \A i \in Returned : ResultOf(i).nonSystemMessages % 2 = 0

\* C27: for every returned technical_support turn that the first two rules
\* let pass, the isBusinessHours flag of the result is the value the
\* handoff rule used, also when the clock crossed a boundary while the
\* language-model call was in flight.
C27_BusinessHoursConsistent ==
  \A i \in Returned :
     LET r == ResultOf(i)
     IN  (r.intent = "technical_support" /\ r.confidence >= 30) =>
           r.isBusinessHours = r.openAtDecision

\* the texts of the messages of a request
RequestLines(request) == {request[k].content : k \in 1..Len(request)}

\* C28: whenever gatherContext returned a result, the request that is in
\* flight to the language-model provider holds every line of the enhanced
\* prompt: the context line of each tool result and the status line.
C28_ContextReachesModel ==
  \A i \in Invs :
     (calls[i].pc = "await" /\ calls[i].toolResults # <<>>) =>
        Range(EnhancedPrompt(calls[i].userInput, calls[i].toolResults, calls[i].isOpen))
           \subseteq RequestLines(calls[i].request)

\* the tools gatherContext reports for the outcomes of its lookups: those
\* that answered before the first one that raised (the calendar is reported
\* whatever it answered)
ToolsBeforeFailure(lookups) ==
  LET names == <<"knowledge_base", "check_calendar", "search_contacts">>
      kept == {k \in 1..3 : /\ lookups[k] \in (IF k = 2 THEN {"found", "empty"} ELSE {"found"})
                             /\ \A j \in 1..(k - 1) : lookups[j] # "throw"}
      F[k \in 0..3] ==
        IF k = 0 THEN <<>>
        ELSE IF k \in kept THEN Append(F[k - 1], names[k]) ELSE F[k - 1]
  IN  F[3]

\* the tool names of a results array
ToolNames(toolResults) == [k \in 1..Len(toolResults) |-> toolResults[k].tool]

\* C29: the gathering step of a turn never fails the turn: it leaves the
\* turn ready to send with the results of the lookups that answered before
\* the first one that raised, in the order knowledge_base, check_calendar,
\* search_contacts, and with no knowledge-base result when that lookup
\* raised; toolsUsed of the result lists exactly the tools gathered, and a
\* turn without a knowledge-base result that is not general_inquiry is
\* handed off.
C29_GatherNeverFails ==
  [][\A i \in Invs :
       /\ (calls[i].pc = "gather" /\ calls'[i] # calls[i]) =>
             /\ calls'[i].pc = "send"
             /\ ToolNames(calls'[i].toolResults) = ToolsBeforeFailure(calls'[i].lookups)
             /\ calls'[i].lookups[1] = "throw" => calls'[i].toolResults = <<>>
       /\ (calls[i].pc = "await" /\ calls'[i].pc = "done") =>
             LET r == calls'[i].result[1]
             IN  /\ r.toolsUsed = ToolNames(calls[i].toolResults)
                 /\ (~UsedKnowledge(r) /\ r.intent # "general_inquiry") => r.needsHandoff]_vars

\* an appointment turn is ready to send after its calendar lookup raised:
\* the knowledge-base result found before is its only tool
C29_Witness ==
  \E i \in Invs :
     /\ calls[i].pc = "send"
     /\ calls[i].lookups[1] = "found"
     /\ calls[i].lookups[2] = "throw"
     /\ ToolNames(calls[i].toolResults) = <<"knowledge_base">>

\* the index at which the last sentence that ends with a terminator, from
\* index p on, ends; 0 when there is none
RECURSIVE LastTerminatedEnd(_, _)
LastTerminatedEnd(text, p) ==
  IF p > Len(text) THEN 0
  ELSE IF IsTerminator(text[p]) THEN LastTerminatedEnd(text, p + 1)
  ELSE LET j == RunEnd(text, p, FALSE)
       IN  IF j = Len(text) THEN 0
           ELSE LET k == RunEnd(text, j + 1, TRUE)
                    later == LastTerminatedEnd(text, k + 1)
                IN  IF later > k THEN later ELSE k

\* the sentences of a text, trimmed: the terminated ones, then the text that
\* follows the last terminator when it is not blank
InputSentences(text) ==
  LET terminated == MatchSentences(text, 1)
      rest == SubSeq(text, LastTerminatedEnd(text, 1) + 1, Len(text))
  IN  [k \in 1..Len(terminated) |-> Trim(terminated[k])]
      \o (IF IsBlank(rest) THEN <<>> ELSE <<Trim(rest)>>)

\* C30: the chunks of chunkBySentences of a non-blank text are the
\* sentences of the text in input order, each in exactly one chunk, the
\* text after the last terminator included.
C30_NoContentLost ==
  (textCall.fn = "chunkBySentences" /\ ~IsBlank(textCall.text)) =>
     Grouped([k \in 1..Len(textCall.output) |-> textCall.output[k].text],
             InputSentences(textCall.text))

\* the similarity of candidate c (an index from 0) in a findMostSimilar call
CandidateSimilarity(call, c) ==
  CosineSimilarity(call.queryEmbedding, call.candidateEmbeddings[c + 1])

\* candidate a ranks before candidate b: higher similarity, or the same
\* similarity and a lower index
RanksBefore(call, a, b) ==
  \/ CandidateSimilarity(call, a) > CandidateSimilarity(call, b)
  \/ CandidateSimilarity(call, a) = CandidateSimilarity(call, b) /\ a < b

\* C21: findMostSimilar(query, candidates, k) returns min(k, n) entries,
\* each the index of a candidate with its similarity to the query; the
\* entries are in descending similarity, equal similarities by ascending
\* index, and every candidate left out ranks after every candidate
\* returned, so the result is determined by the input.
C21_TopKStable ==
  textCall.fn = "findMostSimilar" =>
     LET out == textCall.output
         n == Len(textCall.candidateEmbeddings)
         k == IF textCall.topK.def THEN textCall.topK.v ELSE 5
         chosen == {out[i].index : i \in 1..Len(out)}
     IN  /\ Len(out) = Min(k, n)
         /\ \A i \in 1..Len(out) :
               /\ out[i].index \in 0..(n - 1)
               /\ out[i].similarity = CandidateSimilarity(textCall, out[i].index)
         /\ \A i, j \in 1..Len(out) :
               i < j => RanksBefore(textCall, out[i].index, out[j].index)
         /\ \A c \in (0..(n - 1)) \ chosen :
               \A d \in chosen : RanksBefore(textCall, d, c)

\* three candidates of equal similarity, the last of them cut off by k = 2
C21_Witness ==
  /\ textCall.fn = "findMostSimilar"
  /\ Len(textCall.candidateEmbeddings) = 3
  /\ Len(textCall.output) = 2
  /\ \A c \in 0..2 : CandidateSimilarity(textCall, c) = CandidateSimilarity(textCall, 0)
  /\ CandidateSimilarity(textCall, 0) > 0

\* C22: a ragService.query call makes at most one embedding request and at
\* most one vector search; when either fails the call throws with no
\* result object, and no search is made after a failed embedding; a call
\* that returns made exactly one of each.
C22_NoRetry ==
  textCall.fn = "query" =>
     /\ textCall.embedRequests <= 1
     /\ textCall.searches <= 1
     /\ textCall.pc = "threw" =>
           /\ textCall.result = <<>>
           /\ textCall.failedAt = "embedding" => textCall.searches = 0
     /\ textCall.failedAt # "none" => textCall.pc = "threw"
     /\ textCall.pc = "returned" =>
           /\ textCall.embedRequests = 1 /\ textCall.searches = 1
           /\ Len(textCall.result) = 1

\* a query threw after its one embedding request failed, with no search
C22_Witness ==
  /\ textCall.fn = "query"
  /\ textCall.pc = "threw"
  /\ textCall.failedAt = "embedding"
  /\ textCall.embedRequests = 1
  /\ textCall.searches = 0

\* C23: a notification method returns, never throws: the data of the
\* webhook when the trigger succeeds, null when the trigger throws, be it
\* for the missing credentials or for a failed POST.
C23_BestEffort ==
  textCall.fn = "notify" =>
     /\ ~textCall.output.threw
     /\ textCall.output.value =
          (IF textCall.client /\ textCall.post = "data" THEN "data" ELSE "null")

\* a notification of a service without credentials returned null, no POST made
C23_Witness ==
  /\ textCall.fn = "notify"
  /\ ~textCall.client
  /\ textCall.output.value = "null"
  /\ textCall.output.posted = <<>>

\* a reindexDocument call is between its DELETE and the commit of its INSERTs
InWindow(ops, txs, j) ==
  /\ ops[j].kind = "reindex"
  /\ \/ ops[j].pc = "embedding"
     \/ ops[j].pc = "inserting" /\ txs[ops[j].insertOp].pc # "committed"

\* C24: while a reindexDocument call is between its DELETE and the commit
\* of its INSERTs the document has no chunk, and a search made then returns
\* none of it; when the call throws from there the store is left as it is,
\* and the document has no chunk as long as no later call indexes it.
C24_CrashWindow ==
  [][\A j \in IndexOps :
       LET d == indexOps[j].doc.id
       IN  /\ InWindow(indexOps, inserts, j) =>
                 /\ RowCount(chunks, d) = 0
                 /\ lastSearch' # lastSearch =>
                       \A k \in 1..Len(lastSearch'.results) :
                          lastSearch'.results[k].documentId # d
                 /\ indexOps'[j].pc = "threw" => chunks' = chunks
           /\ (/\ indexOps[j].kind = "reindex" /\ indexOps[j].pc = "threw"
               /\ \A k \in IndexOps : k > j => indexOps[k].doc.id # d) =>
                 RowCount(chunks, d) = 0 /\ RowCount(chunks', d) = 0]_vars

\* a search ran while the first reindexDocument call, of a document that had
\* chunks, was in its window, and found no chunk of the document
C24_Witness ==
  /\ InWindow(indexOps, inserts, 1)
  /\ indexOps[1].doc.id = "d1"
  /\ indexOps[1].result > 0
  /\ lastSearch.via = "searchSimilar"
  /\ \A k \in 1..Len(lastSearch.results) : lastSearch.results[k].documentId # "d1"

=============================================================================
